---------------------------- MODULE Spec2Model ----------------------------
(***************************************************************************)
(* Model of the comparison engine of src/src/comparison_engine.py:         *)
(* FeatureMatcher, UnitConverter, MatrixGenerator,                         *)
(* MarkdownTemplateGenerator and ComparisonEngine.                         *)
(*                                                                         *)
(* A Python str is a sequence of atoms.  Text the code inspects character  *)
(* by character (labels, values, category keys) is written one character   *)
(* per atom; the fixed prose of the report templates is one atom per       *)
(* literal.  A Python dict is a sequence of <<key, value>> pairs in        *)
(* insertion order.  A float is an exact fraction <<numerator,             *)
(* denominator>>; binary rounding is not modelled.                         *)
(***************************************************************************)
EXTENDS Integers, Sequences, FiniteSets, TLC

VARIABLES
    config,      \* the attributes the constructors set, per engine instance
    fs,          \* the file system: the directories, and the files with their content
    calls,       \* the calls of the engines made so far: engine, arguments, outcome
    op,          \* the operation applied last ("input" or "idle" before any)
    input,       \* the arguments drawn for the operation
    output       \* what the operation returned or raised

vars == <<config, fs, calls, op, input, output>>

-----------------------------------------------------------------------------
(* Bounds of the explored inputs.                                          *)

MaxDigits == 4       \* digits before the decimal point of a drawn number
MaxProducts == 2     \* products in a drawn product list
MaxCalls == 3        \* compare_products calls in one behaviour
MaxThreads == 2      \* compare_products calls running concurrently

-----------------------------------------------------------------------------
(* Characters and the str methods the code uses.                           *)

None == <<"None">>

DigitChars == <<"0", "1", "2", "3", "4", "5", "6", "7", "8", "9">>
UpperChars == <<"A", "B", "C", "D", "E", "F", "G", "H", "I", "J", "K", "L", "M",
                "N", "O", "P", "Q", "R", "S", "T", "U", "V", "W", "X", "Y", "Z">>
LowerChars == <<"a", "b", "c", "d", "e", "f", "g", "h", "i", "j", "k", "l", "m",
                "n", "o", "p", "q", "r", "s", "t", "u", "v", "w", "x", "y", "z">>

Range(s) == {s[i] : i \in 1..Len(s)}

IsDigit(c) == c \in Range(DigitChars)
IsUpper(c) == c \in Range(UpperChars)
IsLower(c) == c \in Range(LowerChars)
IsAlpha(c) == IsUpper(c) \/ IsLower(c)
IsWordChar(c) == IsDigit(c) \/ IsAlpha(c) \/ c = "_"
IsSpace(c) == c = " "

DigitVal(c) == (CHOOSE i \in 1..10 : DigitChars[i] = c) - 1

LowerChar(c) == IF IsUpper(c) THEN LowerChars[CHOOSE i \in 1..26 : UpperChars[i] = c] ELSE c
UpperChar(c) == IF IsLower(c) THEN UpperChars[CHOOSE i \in 1..26 : LowerChars[i] = c] ELSE c

\* str.lower()
lower(s) == [i \in 1..Len(s) |-> LowerChar(s[i])]

\* str.title(): a cased character is upper-cased after an uncased one, lower-cased otherwise
title(s) == [i \in 1..Len(s) |->
               IF i = 1 \/ ~IsAlpha(s[i - 1]) THEN UpperChar(s[i]) ELSE LowerChar(s[i])]

\* a in b, for str
IsSubstr(a, b) == \E i \in 0..(Len(b) - Len(a)) : SubSeq(b, i + 1, i + Len(a)) = a

\* the index of the first occurrence of a in b, 0 when there is none (str.find + 1)
Find(a, b) ==
    IF IsSubstr(a, b)
    THEN 1 + CHOOSE i \in 0..(Len(b) - Len(a)) :
                 /\ SubSeq(b, i + 1, i + Len(a)) = a
                 /\ \A j \in 0..(i - 1) : SubSeq(b, j + 1, j + Len(a)) # a
    ELSE 0

\* set(re.findall(r"\b\w+\b", s)): the maximal runs of word characters
WordSet(s) ==
    {SubSeq(s, i, j) : <<i, j>> \in
        {p \in (1..Len(s)) \X (1..Len(s)) :
            /\ p[1] <= p[2]
            /\ \A k \in p[1]..p[2] : IsWordChar(s[k])
            /\ (p[1] = 1 \/ ~IsWordChar(s[p[1] - 1]))
            /\ (p[2] = Len(s) \/ ~IsWordChar(s[p[2] + 1]))}}

\* sep.join(parts), for a list of str
RECURSIVE Join(_, _)
Join(sep, parts) ==
    IF Len(parts) = 0 THEN <<>>
    ELSE IF Len(parts) = 1 THEN parts[1]
    ELSE parts[1] \o sep \o Join(sep, Tail(parts))

\* the pieces of s between the occurrences of the atom a
RECURSIVE SplitAt(_, _)
SplitAt(s, a) ==
    IF \A i \in 1..Len(s) : s[i] # a THEN <<s>>
    ELSE LET At(k) == <<SubSeq(s, 1, k - 1)>> \o SplitAt(SubSeq(s, k + 1, Len(s)), a)
         IN At(CHOOSE k \in 1..Len(s) : s[k] = a /\ \A j \in 1..(k - 1) : s[j] # a)

\* str(n) for a natural number
RECURSIVE IntToStr(_)
IntToStr(n) ==
    IF n < 10 THEN <<DigitChars[n + 1]>>
    ELSE IntToStr(n \div 10) \o <<DigitChars[(n % 10) + 1]>>

-----------------------------------------------------------------------------
(* Exact fractions standing for Python floats.                             *)

RECURSIVE Gcd(_, _)
Gcd(a, b) == IF b = 0 THEN a ELSE Gcd(b, a % b)

Frac(n, d) ==
    LET Reduce(g) == IF g = 0 THEN <<0, 1>> ELSE <<n \div g, d \div g>>
    IN Reduce(Gcd(n, d))
\* the product, cancelled crosswise before multiplying
FracMul(x, y) ==
    LET Mul(a, b) == <<a[1] * b[1], a[2] * b[2]>>
    IN Mul(Frac(x[1], y[2]), Frac(y[1], x[2]))
FracLess(x, y) == x[1] * y[2] < y[1] * x[2]
FracLeq(x, y) == x[1] * y[2] <= y[1] * x[2]

\* int(digits)
RECURSIVE DigitsToInt(_)
DigitsToInt(s) ==
    IF Len(s) = 0 THEN 0
    ELSE 10 * DigitsToInt(SubSeq(s, 1, Len(s) - 1)) + DigitVal(s[Len(s)])

RECURSIVE Pow10(_)
Pow10(n) == IF n = 0 THEN 1 ELSE 10 * Pow10(n - 1)

\* float(s) for s matching \d+(?:\.\d+)?
ParseFloat(s) ==
    LET Make(ip, fp) ==
            Frac(DigitsToInt(ip) * Pow10(Len(fp)) + DigitsToInt(fp), Pow10(Len(fp)))
        Parse(dot) ==
            IF dot = 0 THEN Frac(DigitsToInt(s), 1)
            ELSE Make(SubSeq(s, 1, dot - 1), SubSeq(s, dot + 1, Len(s)))
    IN Parse(Find(<<".">>, s))

-----------------------------------------------------------------------------
(* String literals of the source, one character per atom.                  *)

S_processor == <<"p", "r", "o", "c", "e", "s", "s", "o", "r">>
S_memory == <<"m", "e", "m", "o", "r", "y">>
S_storage == <<"s", "t", "o", "r", "a", "g", "e">>
S_display == <<"d", "i", "s", "p", "l", "a", "y">>
S_camera == <<"c", "a", "m", "e", "r", "a">>
S_battery == <<"b", "a", "t", "t", "e", "r", "y">>
S_dimensions == <<"d", "i", "m", "e", "n", "s", "i", "o", "n", "s">>
S_connectivity == <<"c", "o", "n", "n", "e", "c", "t", "i", "v", "i", "t", "y">>
S_os == <<"o", "s">>
S_price == <<"p", "r", "i", "c", "e">>
S_graphics == <<"g", "r", "a", "p", "h", "i", "c", "s">>
S_other == <<"o", "t", "h", "e", "r">>
S_weight == <<"w", "e", "i", "g", "h", "t">>
S_resolution == <<"r", "e", "s", "o", "l", "u", "t", "i", "o", "n">>
S_refresh_rate == <<"r", "e", "f", "r", "e", "s", "h", "_", "r", "a", "t", "e">>
S_design == <<"d", "e", "s", "i", "g", "n">>
U_KB == <<"K", "B">>
U_MB == <<"M", "B">>
U_GB == <<"G", "B">>
U_TB == <<"T", "B">>
U_cm == <<"c", "m">>
U_mm == <<"m", "m">>
U_inch == <<"i", "n", "c", "h">>
U_quote == <<"\"">>
U_MHz == <<"M", "H", "z">>
U_GHz == <<"G", "H", "z">>
U_mAh == <<"m", "A", "h">>
U_Wh == <<"W", "h">>
U_mg == <<"m", "g">>
U_g == <<"g">>
U_kg == <<"k", "g">>
U_oz == <<"o", "z">>
U_lb == <<"l", "b">>
U_pixels == <<"p", "i", "x", "e", "l", "s">>
U_Hz == <<"H", "z">>
SEP == <<" ", "-", " ">>
S_comparison == <<"_", "c", "o", "m", "p", "a", "r", "i", "s", "o", "n">>
S_refresh == <<"r", "e", "f", "r", "e", "s", "h">>
S_rate == <<"r", "a", "t", "e">>
S_Product == <<"P", "r", "o", "d", "u", "c", "t", " ">>

-----------------------------------------------------------------------------
(* Ordered dicts: sequences of <<key, value>> in insertion order.          *)

DictHas(d, k) == \E i \in 1..Len(d) : d[i][1] = k
DictIdx(d, k) == CHOOSE i \in 1..Len(d) : d[i][1] = k
DictGet(d, k) == d[DictIdx(d, k)][2]
DictGetOr(d, k, dflt) == IF DictHas(d, k) THEN DictGet(d, k) ELSE dflt
DictSet(d, k, v) ==
    IF DictHas(d, k) THEN [d EXCEPT ![DictIdx(d, k)] = <<k, v>>] ELSE Append(d, <<k, v>>)
DictKeys(d) == [i \in 1..Len(d) |-> d[i][1]]

-----------------------------------------------------------------------------
(* FeatureMatcher                                                          *)

feature_categories ==
    <<<<S_processor, <<<<"p", "r", "o", "c", "e", "s", "s", "o", "r">>, <<"c", "p", "u">>, <<"c", "h", "i", "p", "s", "e", "t">>, <<"s", "o", "c">>>>>>,
      <<S_memory, <<<<"r", "a", "m">>, <<"m", "e", "m", "o", "r", "y">>>>>>,
      <<S_storage, <<<<"s", "t", "o", "r", "a", "g", "e">>, <<"d", "i", "s", "k">>, <<"d", "r", "i", "v", "e">>, <<"s", "s", "d">>, <<"h", "d", "d">>>>>>,
      <<S_display, <<<<"d", "i", "s", "p", "l", "a", "y">>, <<"s", "c", "r", "e", "e", "n">>, <<"m", "o", "n", "i", "t", "o", "r">>>>>>,
      <<S_camera, <<<<"c", "a", "m", "e", "r", "a">>, <<"l", "e", "n", "s">>, <<"p", "h", "o", "t", "o">>>>>>,
      <<S_battery, <<<<"b", "a", "t", "t", "e", "r", "y">>, <<"p", "o", "w", "e", "r">>, <<"c", "h", "a", "r", "g", "e">>>>>>,
      <<S_dimensions, <<<<"d", "i", "m", "e", "n", "s", "i", "o", "n", "s">>, <<"s", "i", "z", "e">>, <<"w", "e", "i", "g", "h", "t">>>>>>,
      <<S_connectivity, <<<<"w", "i", "f", "i">>, <<"b", "l", "u", "e", "t", "o", "o", "t", "h">>, <<"n", "f", "c">>, <<"u", "s", "b">>, <<"p", "o", "r", "t">>>>>>,
      <<S_os, <<<<"o", "s">>, <<"o", "p", "e", "r", "a", "t", "i", "n", "g", " ", "s", "y", "s", "t", "e", "m">>, <<"s", "o", "f", "t", "w", "a", "r", "e">>>>>>,
      <<S_price, <<<<"p", "r", "i", "c", "e">>, <<"c", "o", "s", "t">>, <<"m", "s", "r", "p">>>>>>,
      <<S_graphics, <<<<"g", "r", "a", "p", "h", "i", "c", "s">>, <<"g", "p", "u">>, <<"v", "g", "a">>, <<"v", "i", "d", "e", "o">>>>>>>>

\* the attributes FeatureMatcher.__init__ sets
FeatureMatcher == [similarity_threshold |-> <<7, 10>>, feature_categories |-> feature_categories]

\* \b at the gap after the k-th character of s
WordBoundary(s, k) ==
    (k >= 1 /\ IsWordChar(s[k])) # (k < Len(s) /\ IsWordChar(s[k + 1]))

\* re.compile(r"(?i)\b" + re.escape(keyword) + r"\w*\b").search(s) is not None
PatternSearch(keyword, s) ==
    \E i \in 1..(Len(s) - Len(keyword) + 1) :
        /\ lower(SubSeq(s, i, i + Len(keyword) - 1)) = lower(keyword)
        /\ WordBoundary(s, i - 1)
        /\ \E e \in (i + Len(keyword) - 1)..Len(s) :
              /\ \A k \in (i + Len(keyword))..e : IsWordChar(s[k])
              /\ WordBoundary(s, e)

\* _calculate_similarity without the conversion to lower case
_calculate_similarity_cased(str1, str2) ==
    LET Jaccard(words1, words2) ==
            IF words1 = {} \/ words2 = {} THEN <<0, 1>>
            ELSE <<Cardinality(words1 \cap words2), Cardinality(words1 \cup words2)>>
        Similarity(s1, s2) ==
            IF s1 = s2 THEN <<1, 1>>
            ELSE IF IsSubstr(s1, s2) \/ IsSubstr(s2, s1) THEN <<9, 10>>
            ELSE Jaccard(WordSet(s1), WordSet(s2))
    IN Similarity(str1, str2)
_calculate_similarity(str1, str2) ==
    LET Jaccard(words1, words2) ==
            IF words1 = {} \/ words2 = {} THEN <<0, 1>>
            ELSE <<Cardinality(words1 \cap words2), Cardinality(words1 \cup words2)>>
        Similarity(s1, s2) ==
            IF s1 = s2 THEN <<1, 1>>
            ELSE IF IsSubstr(s1, s2) \/ IsSubstr(s2, s1) THEN <<9, 10>>
            ELSE Jaccard(WordSet(s1), WordSet(s2))
    IN Similarity(lower(str1), lower(str2))

\* the first category, in declaration order, one of whose keywords matches; "other" when none
RECURSIVE FirstMatchingCategory(_, _, _)
FirstMatchingCategory(cats, i, s) ==
    IF i > Len(cats) THEN S_other
    ELSE IF \E k \in 1..Len(cats[i][2]) : PatternSearch(cats[i][2][k], s) THEN cats[i][1]
    ELSE FirstMatchingCategory(cats, i + 1, s)

_categorize_feature(self, feature_key) ==
    IF IsSubstr(SEP, feature_key)
    THEN lower(SubSeq(feature_key, 1, Find(SEP, feature_key) - 1))
    ELSE FirstMatchingCategory(self.feature_categories, 1, lower(feature_key))

-----------------------------------------------------------------------------
(* UnitConverter                                                           *)

conversion_factors ==
    <<<<S_storage, <<<<U_KB, <<1, 1048576>>>>, <<U_MB, <<1, 1024>>>>, <<U_GB, <<1, 1>>>>,
                     <<U_TB, <<1024, 1>>>>>>>>,
      <<S_memory, <<<<U_MB, <<1, 1024>>>>, <<U_GB, <<1, 1>>>>>>>>,
      <<S_display, <<<<U_cm, <<50, 127>>>>, <<U_mm, <<5, 127>>>>, <<U_inch, <<1, 1>>>>,
                     <<U_quote, <<1, 1>>>>>>>>,
      <<S_processor, <<<<U_MHz, <<1, 1000>>>>, <<U_GHz, <<1, 1>>>>>>>>,
      <<S_battery, <<<<U_mAh, <<1, 1>>>>, <<U_Wh, <<270, 1>>>>>>>>,
      <<S_weight, <<<<U_mg, <<1, 1000>>>>, <<U_g, <<1, 1>>>>, <<U_kg, <<1000, 1>>>>,
                    <<U_oz, <<567, 20>>>>, <<U_lb, <<45359, 100>>>>>>>>>>

base_units ==
    <<<<S_storage, U_GB>>, <<S_memory, U_GB>>, <<S_display, U_inch>>, <<S_processor, U_GHz>>,
      <<S_battery, U_mAh>>, <<S_weight, U_g>>, <<S_resolution, U_pixels>>,
      <<S_refresh_rate, U_Hz>>>>

\* r"(\d+(?:\.\d+)?)\s*(" + "|".join(units) + r")", one per category with a table
value_unit_patterns ==
    [i \in 1..Len(conversion_factors) |->
        <<conversion_factors[i][1], [kind |-> "units", units |-> DictKeys(conversion_factors[i][2])]>>]

\* r"(\d+(?:\.\d+)?)\s*([a-zA-Z]+)" and r"(\d+(?:\.\d+)?)"
GenericUnitPattern == [kind |-> "letters"]
GenericNumberPattern == [kind |-> "number"]

\* the attributes UnitConverter.__init__ sets
UnitConverter ==
    [conversion_factors |-> conversion_factors, base_units |-> base_units,
     value_unit_patterns |-> value_unit_patterns]

\* the last index of the run of characters satisfying P that starts at i; i - 1 when empty
RECURSIVE RunEnd(_, _, _)
RunEnd(P(_), s, i) == IF i <= Len(s) /\ P(s[i]) THEN RunEnd(P, s, i + 1) ELSE i - 1

\* where \d+(?:\.\d+)? can end when it starts at i, in the order the regex engine tries
NumberEnds(s, i) ==
    LET Ends(d, f) ==
            IF d < i THEN <<>>
            ELSE [n \in 1..(IF f >= d + 2 THEN f - d - 1 ELSE 0) |-> f - n + 1]
                 \o [n \in 1..(d - i + 1) |-> d - n + 1]
        Fraction(d) ==
            Ends(d, IF d + 1 <= Len(s) /\ s[d + 1] = "." THEN RunEnd(IsDigit, s, d + 2) ELSE d)
    IN Fraction(RunEnd(IsDigit, s, i))

\* s has u right after its k-th character
HasAt(s, k, u) == k + Len(u) <= Len(s) /\ SubSeq(s, k + 1, k + Len(u)) = u

\* what the unit group matches right after the k-th character, None when nothing
UnitAt(pat, s, k) ==
    IF pat.kind = "units"
    THEN IF \E n \in 1..Len(pat.units) : HasAt(s, k, pat.units[n])
         THEN pat.units[CHOOSE n \in 1..Len(pat.units) :
                           /\ HasAt(s, k, pat.units[n])
                           /\ \A m \in 1..(n - 1) : ~HasAt(s, k, pat.units[m])]
         ELSE None
    ELSE IF pat.kind = "letters"
    THEN LET Letters(e) == IF e > k THEN SubSeq(s, k + 1, e) ELSE None
         IN Letters(RunEnd(IsAlpha, s, k + 1))
    ELSE <<>>

\* the match that starts at i: <<group 1, group 2>>, None when there is none
MatchAt(pat, s, i) ==
    LET \* \s* is greedy and gives characters back one at a time
        Last(ok) == IF ok = {} THEN None
                    ELSE UnitAt(pat, s, CHOOSE k \in ok : \A k2 \in ok : k2 <= k)
        Unit(j) == Last({k \in j..RunEnd(IsSpace, s, j + 1) : UnitAt(pat, s, k) # None})
        Groups(e) == <<SubSeq(s, i, e), Unit(e)>>
        First(ends, good) ==
            IF good = {} THEN None
            ELSE Groups(ends[CHOOSE n \in good : \A m \in good : n <= m])
        Match(ends) == First(ends, {n \in 1..Len(ends) : Unit(ends[n]) # None})
    IN Match(NumberEnds(s, i))

\* pattern.search(s): the leftmost match
ReSearch(pat, s) ==
    LET Leftmost(starts) ==
            IF starts = {} THEN None
            ELSE MatchAt(pat, s, CHOOSE i \in starts : \A i2 \in starts : i <= i2)
    IN Leftmost({i \in 1..Len(s) : MatchAt(pat, s, i) # None})

\* extract_value_and_unit without the bare-number fallback of the table categories
extract_value_and_unit_nofallback(self, value_str, category) ==
    IF value_str.t # "str" THEN <<None, None>>
    ELSE LET Groups(match) ==
                 IF match # None THEN <<ParseFloat(match[1]), match[2]>> ELSE <<None, None>>
         IN Groups(ReSearch(IF DictHas(self.value_unit_patterns, category)
                            THEN DictGet(self.value_unit_patterns, category)
                            ELSE GenericUnitPattern,
                            value_str.s))

extract_value_and_unit(self, value_str, category) ==
    IF value_str.t # "str" THEN <<None, None>>
    ELSE LET \* the fallback to a bare number, for a category with a pattern
             Fallback(match2) ==
                 IF match2 # None THEN <<ParseFloat(match2[1]), None>> ELSE <<None, None>>
             Groups(match, hasPattern) ==
                 IF match # None THEN <<ParseFloat(match[1]), match[2]>>
                 ELSE IF hasPattern THEN Fallback(ReSearch(GenericNumberPattern, value_str.s))
                 ELSE <<None, None>>
         IN IF DictHas(self.value_unit_patterns, category)
            THEN Groups(ReSearch(DictGet(self.value_unit_patterns, category), value_str.s), TRUE)
            ELSE Groups(ReSearch(GenericUnitPattern, value_str.s), FALSE)

\* convert_to_base_unit that relabels the value without multiplying by the factor
convert_to_base_unit_nofactor(self, value, unit, category) ==
    IF ~DictHas(self.conversion_factors, category)
       \/ ~DictHas(DictGet(self.conversion_factors, category), unit)
    THEN <<value, unit>>
    ELSE <<value, DictGetOr(self.base_units, category, unit)>>

convert_to_base_unit(self, value, unit, category) ==
    IF ~DictHas(self.conversion_factors, category)
       \/ ~DictHas(DictGet(self.conversion_factors, category), unit)
    THEN <<value, unit>>
    ELSE <<FracMul(value, DictGet(DictGet(self.conversion_factors, category), unit)),
           DictGetOr(self.base_units, category, unit)>>

normalize_for_comparison(self, value_str, category) ==
    LET Convert(value, unit) ==
            IF value = None THEN <<None, None>>
            ELSE IF unit = None THEN <<value, DictGetOr(self.base_units, category, <<>>)>>
            ELSE convert_to_base_unit(self, value, unit, category)
        Unpack(vu) == Convert(vu[1], vu[2])
    IN Unpack(extract_value_and_unit(self, value_str, category))

is_comparable(self, value1, value2, category) ==
    /\ normalize_for_comparison(self, value1, category)[1] # None
    /\ normalize_for_comparison(self, value2, category)[1] # None

compare_values(self, value1, value2, category) ==
    LET Compare(norm1, norm2) ==
            IF norm1[1] = None \/ norm2[1] = None THEN <<None, None, None>>
            ELSE <<norm1[1], norm2[1], norm1[2]>>
    IN Compare(normalize_for_comparison(self, value1, category),
               normalize_for_comparison(self, value2, category))

-----------------------------------------------------------------------------
(* FeatureMatcher.match_features                                           *)

\* how a call ends: a returned value or a raised exception
Return(v) == [raised |-> FALSE, value |-> v]
Raise(e, d) == [raised |-> TRUE, exc |-> e, details |-> d]

\* bool(x) of an argument: a list, None, an int or a str
Truthy(x) ==
    CASE x.t = "list" -> Len(x.items) > 0
      [] x.t = "NoneType" -> FALSE
      [] x.t = "int" -> x.n # 0
      [] x.t = "str" -> Len(x.s) > 0

RECURSIVE Fold(_, _, _, _)
Fold(Op(_, _), acc, s, i) == IF i > Len(s) THEN acc ELSE Fold(Op, Op(acc, s[i]), s, i + 1)

\* the flattened specifications with the category before every key
FlattenSpecs_prefixall(specs) ==
    Fold(LAMBDA flat, cat :
            Fold(LAMBDA fl, kv : DictSet(fl, cat[1] \o SEP \o kv[1], kv[2]), flat, cat[2], 1),
         <<>>, specs, 1)
\* the flattened specifications of one product
FlattenSpecs(specs) ==
    Fold(LAMBDA flat, cat :
            Fold(LAMBDA fl, kv :
                    DictSet(fl, IF cat[1] # S_other THEN cat[1] \o SEP \o kv[1] ELSE kv[1], kv[2]),
                 flat, cat[2], 1),
         <<>>, specs, 1)

\* product_data.get("product_name", f"Product {product_idx + 1}"), idx counted from 1
ProductName(product_data, idx) ==
    IF product_data.has_name THEN product_data.product_name ELSE S_Product \o IntToStr(idx)

\* all_features with the specifications of the first record of a name kept
AllFeatures_firstrecord(items) ==
    LET Step(all, idx) ==
            IF DictHas(all, ProductName(items[idx], idx)) THEN all
            ELSE Append(all, <<ProductName(items[idx], idx),
                               FlattenSpecs(IF items[idx].has_specs THEN items[idx].specifications
                                            ELSE <<>>)>>)
    IN Fold(Step, <<>>, [i \in 1..Len(items) |-> i], 1)
\* all_features: product name -> flattened specifications
AllFeatures(items) ==
    LET Step(all, idx) ==
            DictSet(all, ProductName(items[idx], idx),
                    FlattenSpecs(IF items[idx].has_specs THEN items[idx].specifications ELSE <<>>))
    IN Fold(Step, <<>>, [i \in 1..Len(items) |-> i], 1)

\* categorized_features: category -> feature key -> list of <<product, value>>
CategorizedFeatures(self, all_features) ==
    LET \* the three steps of the loop body, on the dict each has made
        AppendValue(c1, category, f1, product_name, kv) ==
            DictSet(c1, category,
                    DictSet(f1, kv[1], Append(DictGet(f1, kv[1]), <<product_name, kv[2]>>)))
        AddKey(c1, category, f0, product_name, kv) ==
            AppendValue(c1, category,
                        IF DictHas(f0, kv[1]) THEN f0 ELSE Append(f0, <<kv[1], <<>>>>),
                        product_name, kv)
        AddCategory(c1, category, product_name, kv) ==
            AddKey(c1, category, DictGet(c1, category), product_name, kv)
        AddTo(categorized, category, product_name, kv) ==
            AddCategory(IF DictHas(categorized, category) THEN categorized
                        ELSE Append(categorized, <<category, <<>>>>),
                        category, product_name, kv)
        Add(categorized, product_name, kv) ==
            AddTo(categorized, _categorize_feature(self, kv[1]), product_name, kv)
    IN Fold(LAMBDA categorized, pf :
               Fold(LAMBDA c, kv : Add(c, pf[1], kv), categorized, pf[2], 1),
            <<>>, all_features, 1)

\* [feature_key] followed by the keys similar to it, processed or not
SimilarFeatures_unmarked(self, features, feature_key, processed_keys) ==
    <<feature_key>> \o
    Fold(LAMBDA acc, kv :
            IF /\ kv[1] # feature_key
               /\ FracLeq(self.similarity_threshold, _calculate_similarity(feature_key, kv[1]))
            THEN Append(acc, kv[1]) ELSE acc,
         <<>>, features, 1)
\* [feature_key] followed by the unprocessed keys similar to it
SimilarFeatures(self, features, feature_key, processed_keys) ==
    <<feature_key>> \o
    Fold(LAMBDA acc, kv :
            IF /\ kv[1] # feature_key
               /\ kv[1] \notin processed_keys
               /\ FracLeq(self.similarity_threshold, _calculate_similarity(feature_key, kv[1]))
            THEN Append(acc, kv[1]) ELSE acc,
         <<>>, features, 1)

\* the last of the keys with the most values
CanonicalKey_last(features, similar_features) ==
    LET n(k) == Len(DictGetOr(features, k, <<>>))
        i == CHOOSE i \in 1..Len(similar_features) :
                /\ \A j \in 1..Len(similar_features) : n(similar_features[j]) <= n(similar_features[i])
                /\ \A j \in (i + 1)..Len(similar_features) : n(similar_features[j]) < n(similar_features[i])
    IN similar_features[i]
\* max(similar_features, key=lambda k: len(features.get(k, []))): the first of the largest
CanonicalKey(features, similar_features) ==
    LET n(k) == Len(DictGetOr(features, k, <<>>))
        i == CHOOSE i \in 1..Len(similar_features) :
                /\ \A j \in 1..Len(similar_features) : n(similar_features[j]) <= n(similar_features[i])
                /\ \A j \in 1..(i - 1) : n(similar_features[j]) < n(similar_features[i])
    IN similar_features[i]

\* the merged values of a cluster, the last value of each product kept
FinalValues_last(features, similar_features) ==
    LET merged_values ==
            Fold(LAMBDA acc, k : acc \o DictGetOr(features, k, <<>>), <<>>, similar_features, 1)
    IN Fold(LAMBDA acc, pv : DictSet(acc, pv[1], pv[2]), <<>>, merged_values, 1)
\* the merged values of a cluster, the first value of each product kept
FinalValues(features, similar_features) ==
    LET merged_values ==
            Fold(LAMBDA acc, k : acc \o DictGetOr(features, k, <<>>), <<>>, similar_features, 1)
    IN Fold(LAMBDA acc, pv : IF DictHas(acc, pv[1]) THEN acc ELSE Append(acc, pv),
            <<>>, merged_values, 1)

\* the loop over one category's features with every key taken as a seed
MatchClusters_everyseed(self, features) ==
    Fold(LAMBDA st, kv :
            LET Put(similar_features) ==
                    <<st[1] \cup {similar_features[i] : i \in 2..Len(similar_features)}
                            \cup {CanonicalKey(features, similar_features)},
                      Append(st[2], similar_features)>>
            IN Put(SimilarFeatures(self, features, kv[1], st[1])),
         <<{}, <<>>>>, features, 1)[2]
\* the loop over one category's features, as far as the clusters go: the similar_features
\* lists it makes, in order, with processed_keys carried along
MatchClusters(self, features) ==
    Fold(LAMBDA st, kv :
            IF kv[1] \in st[1] THEN st
            ELSE LET Put(similar_features) ==
                         <<st[1] \cup {similar_features[i] : i \in 2..Len(similar_features)}
                                 \cup {CanonicalKey(features, similar_features)},
                           Append(st[2], similar_features)>>
                 IN Put(SimilarFeatures(self, features, kv[1], st[1])),
         <<{}, <<>>>>, features, 1)[2]

\* the loop over one category's features: canonical key -> final values
MatchCategory(self, features) ==
    Fold(LAMBDA m, similar_features :
            DictSet(m, CanonicalKey(features, similar_features),
                    FinalValues(features, similar_features)),
         <<>>, MatchClusters(self, features), 1)

\* the expected categories with the categories of the base units among them
expected_categories_baseunits(self) ==
    DictKeys(self.feature_categories) \o <<S_other, S_weight, S_resolution, S_refresh_rate>>
expected_categories(self) == DictKeys(self.feature_categories) \o <<S_other>>

match_features(self, products_data) ==
    IF ~Truthy(products_data) THEN Return(<<>>)
    ELSE IF products_data.t = "int" THEN Raise("TypeError", <<>>)
    ELSE IF products_data.t = "str" THEN Raise("AttributeError", <<>>)
    ELSE LET Match(categorized_features, initial) ==
                 IF \E i \in 1..Len(categorized_features) :
                       ~DictHas(initial, categorized_features[i][1])
                 THEN Raise("KeyError", <<>>)
                 ELSE Return(Fold(LAMBDA matched, cf :
                                     DictSet(matched, cf[1],
                                             Fold(LAMBDA m, ckv : DictSet(m, ckv[1], ckv[2]),
                                                  DictGet(matched, cf[1]),
                                                  MatchCategory(self, cf[2]), 1)),
                                  initial, categorized_features, 1))
             Initial(categories) == [i \in 1..Len(categories) |-> <<categories[i], <<>>>>]
         IN Match(CategorizedFeatures(self, AllFeatures(products_data.items)),
                  Initial(expected_categories(self)))

-----------------------------------------------------------------------------
(* MatrixGenerator                                                         *)

StrVal(s) == [t |-> "str", s |-> s]
IntVal(n) == [t |-> "int", n |-> n]

\* the attributes MatrixGenerator.__init__ sets
MatrixGenerator(unit_converter) == [unit_converter |-> unit_converter]

\* <<product, normalized value, unit>> of the str values that normalize
ComparableValues(self, product_values, category) ==
    LET Add(acc, product_name, n) ==
            IF n[1] # None THEN Append(acc, <<product_name, n[1], n[2]>>) ELSE acc
    IN Fold(LAMBDA acc, pv :
               IF pv[2].t = "str"
               THEN Add(acc, pv[1], normalize_for_comparison(self.unit_converter, pv[2], category))
               ELSE acc,
            <<>>, product_values, 1)

\* max(values, key=...) returning the last of the largest, in place of the first
MaxBy2Last(values) ==
    values[CHOOSE i \in 1..Len(values) :
              /\ \A j \in 1..Len(values) : FracLeq(values[j][2], values[i][2])
              /\ \A j \in (i + 1)..Len(values) : FracLess(values[j][2], values[i][2])]
\* max(values, key=lambda x: x[1]) and min(...): the first of the largest, of the smallest
MaxBy2(values) ==
    values[CHOOSE i \in 1..Len(values) :
              /\ \A j \in 1..Len(values) : FracLeq(values[j][2], values[i][2])
              /\ \A j \in 1..(i - 1) : FracLess(values[j][2], values[i][2])]
MinBy2(values) ==
    values[CHOOSE i \in 1..Len(values) :
              /\ \A j \in 1..Len(values) : FracLeq(values[i][2], values[j][2])
              /\ \A j \in 1..(i - 1) : FracLess(values[i][2], values[j][2])]

\* BestProduct with the neutral categories taken as higher-is-better
BestProduct_noneutral(category, feature_key, comparable_values) ==
    <<MaxBy2(comparable_values), "higher_better">>
\* <<best_product, comparison_type>> of a feature with two or more comparable values;
\* the local unit assigned next to the label overrides is never read afterwards
BestProduct(category, feature_key, comparable_values) ==
    LET Override(label, byCategory) ==
            IF IsSubstr(S_resolution, label)
            THEN <<MaxBy2(comparable_values), "higher_better">>
            ELSE IF IsSubstr(S_refresh, label) /\ IsSubstr(S_rate, label)
            THEN <<MaxBy2(comparable_values), "higher_better">>
            ELSE byCategory
    IN Override(lower(feature_key),
                IF category \in {S_processor, S_memory, S_storage, S_display, S_graphics}
                THEN <<MaxBy2(comparable_values), "higher_better">>
                ELSE IF category \in {S_weight}
                THEN <<MinBy2(comparable_values), "lower_better">>
                ELSE <<None, "neutral">>)

\* matrix[category][feature_key] for one feature
FeatureRow(self, category, feature_key, product_values) ==
    LET Annotate(cells, comparable_values, best) ==
            IF /\ Len(product_values) > 1
               /\ DictHas(self.unit_converter.base_units, category)
               /\ Len(comparable_values) > 1
               /\ best[1] # None
            THEN DictSet(cells, S_comparison,
                         [t |-> "dict",
                          type |-> best[2],
                          best_product |-> best[1][1],
                          normalized_values |->
                              Fold(LAMBDA d, c : DictSet(d, c[1], c[2]), <<>>, comparable_values, 1),
                          unit |-> best[1][3]])
            ELSE cells
        Row(cells, comparable_values) ==
            Annotate(cells, comparable_values,
                     BestProduct(category, feature_key, comparable_values))
    IN Row(Fold(LAMBDA row, pv : DictSet(row, pv[1], pv[2]), <<>>, product_values, 1),
           ComparableValues(self, product_values, category))

generate_feature_matrix(self, matched_features) ==
    [c \in 1..Len(matched_features) |->
        <<matched_features[c][1],
          [f \in 1..Len(matched_features[c][2]) |->
              <<matched_features[c][2][f][1],
                FeatureRow(self, matched_features[c][1], matched_features[c][2][f][1],
                           matched_features[c][2][f][2])>>]>>]

S_NA == <<"N", "/", "A">>

\* f"{value}" of a cell value
Format(v) == IF v.t = "str" THEN v.s ELSE IF v.t = "int" THEN IntToStr(v.n) ELSE <<"{...}">>

\* the cell of a product without the bold markers of the best value
TableCell_nobold(product_values, product, value) == value
\* the cell of a product: its value, in bold markers when the product is the best one
TableCell(product_values, product, value) ==
    IF /\ DictHas(product_values, S_comparison)
       /\ DictGet(product_values, S_comparison).best_product = product
    THEN StrVal(<<"**">> \o Format(value) \o <<"**">>)
    ELSE value

\* TableRow with an empty cell, in place of N/A, for a product without a value
TableRow_blank(feature_key, product_values, products) ==
    <<StrVal(feature_key)>> \o
    [p \in 1..Len(products) |->
        LET Cell(value) ==
                IF /\ DictHas(product_values, S_comparison)
                   /\ DictGet(product_values, S_comparison).best_product = products[p]
                THEN StrVal(<<"**">> \o Format(value) \o <<"**">>)
                ELSE value
        IN Cell(DictGetOr(product_values, products[p], StrVal(<<>>)))]
\* the row list of one feature: the feature key, then one cell per product
TableRow(feature_key, product_values, products) ==
    <<StrVal(feature_key)>> \o
    [p \in 1..Len(products) |->
        TableCell(product_values, products[p],
                  DictGetOr(product_values, products[p], StrVal(S_NA)))]

\* "| " + " | ".join(row) + " |"; str.join raises TypeError on an item that is not a str
TableLine(row) ==
    IF \E i \in 1..Len(row) : row[i].t # "str" THEN Raise("TypeError", <<>>)
    ELSE Return(<<"| ">> \o Join(<<" | ">>, [i \in 1..Len(row) |-> row[i].s]) \o <<" |">>)

\* the lines of one category's table
CategoryTable(category, features, products) ==
    LET Table(header, rows) ==
            IF \E f \in 1..Len(rows) : rows[f].raised THEN Raise("TypeError", <<>>)
            ELSE Return(<<<<"### ">> \o title(category), <<>>,
                          <<"| ">> \o Join(<<" | ">>, header) \o <<" |">>,
                          <<"| ">> \o Join(<<" | ">>, [i \in 1..Len(header) |-> <<"---">>])
                                  \o <<" |">>>>
                        \o [f \in 1..Len(rows) |-> rows[f].value]
                        \o <<<<>>>>)
    IN Table(<<<<"Feature">>>> \o products,
             [f \in 1..Len(features) |->
                 TableLine(TableRow(features[f][1], features[f][2], products))])

generate_markdown_table(feature_matrix, products) ==
    IF Len(feature_matrix) = 0 \/ Len(products) = 0
    THEN Return(<<"No comparison data available.">>)
    ELSE LET Markdown(tables) ==
                 IF \E c \in 1..Len(tables) : tables[c].raised THEN Raise("TypeError", <<>>)
                 ELSE Return(Join(<<"\n">>,
                                  Fold(LAMBDA acc, tb : acc \o tb.value, <<>>, tables, 1)))
         IN Markdown([c \in 1..Len(feature_matrix) |->
                         IF Len(feature_matrix[c][2]) = 0 THEN Return(<<>>)
                         ELSE CategoryTable(feature_matrix[c][1], feature_matrix[c][2], products)])

-----------------------------------------------------------------------------
(* MarkdownTemplateGenerator                                               *)

\* the keys of self.template_sections, in declaration order
template_sections ==
    <<"header", "introduction", "methodology", "comparison_matrix", "feature_highlights",
      "conclusion">>

\* the attributes MarkdownTemplateGenerator.__init__ sets
MarkdownTemplateGenerator == [template_sections |-> template_sections]

Lines(lines) == Join(<<"\n">>, lines)

_generate_header(products, comparison_date) ==
    Lines(<<<<"# Product Comparison: ">> \o Join(<<", ">>, products), <<>>,
            <<"*Comparison Date: ">> \o comparison_date \o <<"*">>, <<>>, <<"---">>, <<>>>>)

_generate_introduction(products) ==
    Lines(<<<<"## Introduction">>, <<>>,
            <<"This report provides an objective technical comparison of ">>
                \o IntToStr(Len(products)) \o <<" products: ">> \o Join(<<", ">>, products)
                \o <<". ">>,
            <<"The comparison is based on verified specifications from multiple sources, with marketing claims filtered out to ensure objectivity.">>,
            <<>>>>)

_generate_methodology ==
    Lines(<<<<"## Methodology">>, <<>>,
            <<"This comparison was generated using an AI-powered product research system that:">>,
            <<>>,
            <<"1. Collects product specifications from multiple authoritative sources">>,
            <<"2. Validates technical specifications against industry standards">>,
            <<"3. Filters out marketing language to focus on factual data">>,
            <<"4. Normalizes units and formats for accurate comparison">>,
            <<"5. Generates standardized comparison matrices">>,
            <<>>,
            <<"All data has been processed to ensure accuracy and objectivity.">>,
            <<>>>>)

_generate_comparison_matrix(feature_matrix, products) ==
    LET Section(matrix_content) ==
            IF matrix_content.raised THEN matrix_content
            ELSE Return(Lines(<<<<"## Comparison Matrix">>, <<>>,
                                <<"The following tables compare key features across all products:">>,
                                <<>>, matrix_content.value>>))
    IN Section(generate_markdown_table(feature_matrix, products))

\* highlight_points without the lines of the lower-is-better features
HighlightPoints_higheronly(feature_matrix) ==
    Fold(LAMBDA acc, cat :
            Fold(LAMBDA a, fr :
                    IF ~DictHas(fr[2], S_comparison) THEN a
                    ELSE LET Highlight(comparison) ==
                                 IF comparison.type = "higher_better"
                                 THEN Append(a, <<"- **">> \o comparison.best_product
                                                \o <<"** has the highest ">> \o lower(fr[1])
                                                \o <<" (">> \o comparison.unit \o <<")">>)
                                 ELSE a
                         IN Highlight(DictGet(fr[2], S_comparison)),
                 acc, cat[2], 1),
         <<>>, feature_matrix, 1)
\* highlight_points: one line per annotated feature with a directed policy
HighlightPoints(feature_matrix) ==
    Fold(LAMBDA acc, cat :
            Fold(LAMBDA a, fr :
                    IF ~DictHas(fr[2], S_comparison) THEN a
                    ELSE LET Point(comparison, word) ==
                                 <<"- **">> \o comparison.best_product \o word
                                 \o lower(fr[1]) \o <<" (">>
                                 \o (IF comparison.unit = None THEN <<"None">> ELSE comparison.unit)
                                 \o <<")">>
                             Highlight(comparison) ==
                                 IF comparison.type \in {"higher_better", "lower_better"}
                                 THEN Append(a, Point(comparison,
                                                      IF comparison.type = "higher_better"
                                                      THEN <<"** has the highest ">>
                                                      ELSE <<"** has the lowest ">>))
                                 ELSE a
                         IN Highlight(DictGet(fr[2], S_comparison)),
                 acc, cat[2], 1),
         <<>>, feature_matrix, 1)

_generate_feature_highlights(feature_matrix) ==
    LET Section(highlight_points) ==
            Lines(<<<<"## Feature Highlights">>, <<>>>>
                  \o (IF Len(highlight_points) > 0 THEN highlight_points
                      ELSE <<<<"No specific highlights identified in the comparison.">>>>)
                  \o <<<<>>>>)
    IN Section(HighlightPoints(feature_matrix))

_generate_conclusion ==
    Lines(<<<<"## Conclusion">>, <<>>,
            <<"This comparison provides an objective overview of the technical specifications for the compared products. ">>,
            <<"The data presented is factual and free from marketing claims, allowing for an unbiased assessment of each product's capabilities.">>,
            <<>>,
            <<"For specific use cases, consider which features are most important for your needs when making a decision.">>,
            <<>>>>)

\* the content of one recognized section
SectionContent(section, products, feature_matrix, comparison_date) ==
    IF section = "comparison_matrix" THEN _generate_comparison_matrix(feature_matrix, products)
    ELSE IF section = "header" THEN Return(_generate_header(products, comparison_date))
    ELSE IF section = "introduction" THEN Return(_generate_introduction(products))
    ELSE IF section = "feature_highlights" THEN Return(_generate_feature_highlights(feature_matrix))
    ELSE IF section = "conclusion" THEN Return(_generate_conclusion)
    ELSE Return(_generate_methodology)

\* the recognized sections among the given ones, in the order of declaration
RenderedSections_declared(self, sections) ==
    LET given == IF sections = None THEN self.template_sections ELSE sections
    IN SelectSeq(self.template_sections, LAMBDA sec : sec \in Range(given))
\* the sections generate_template renders: the recognized ones, in the given order
RenderedSections(self, sections) ==
    LET given == IF sections = None THEN self.template_sections ELSE sections
    IN Fold(LAMBDA acc, sec : IF sec \in Range(self.template_sections) THEN Append(acc, sec) ELSE acc,
            <<>>, given, 1)

generate_template(self, products, feature_matrix, comparison_date, sections) ==
    LET Markdown(contents) ==
            IF \E i \in 1..Len(contents) : contents[i].raised THEN Raise("TypeError", <<>>)
            ELSE Return(Lines([i \in 1..Len(contents) |-> contents[i].value]))
        Render(names) ==
            Markdown([i \in 1..Len(names) |->
                         SectionContent(names[i], products, feature_matrix, comparison_date)])
    IN Render(RenderedSections(self, sections))

-----------------------------------------------------------------------------
(* ComparisonEngine                                                        *)

\* the attributes ComparisonEngine.__init__ sets
ComparisonEngine ==
    [feature_matcher |-> FeatureMatcher,
     unit_converter |-> UnitConverter,
     matrix_generator |-> MatrixGenerator(UnitConverter),
     template_generator |-> MarkdownTemplateGenerator]

\* [data.get("product_name", f"Product {i + 1}") for i, data in enumerate(products_data)]
product_names(products_data) ==
    IF products_data.t \in {"NoneType", "int"} THEN Raise("TypeError", <<>>)
    ELSE IF products_data.t = "str"
    THEN IF Len(products_data.s) > 0 THEN Raise("AttributeError", <<>>) ELSE Return(<<>>)
    ELSE Return([i \in 1..Len(products_data.items) |-> ProductName(products_data.items[i], i)])

\* the except clause: len(products_data) raises TypeError for an argument without a length
HandleError(products_data) ==
    IF products_data.t = "list"
    THEN Raise("DataProcessingError", [product_count |-> Len(products_data.items)])
    ELSE IF products_data.t = "str"
    THEN Raise("DataProcessingError", [product_count |-> Len(products_data.s)])
    ELSE Raise("TypeError", <<>>)

compare_products(self, products_data, comparison_date) ==
    LET \* the try block, statement by statement; a raised step skips the ones after it
        Finish(markdown_report) == [raised |-> markdown_report.raised, report |-> markdown_report]
        Template(names, feature_matrix) ==
            Finish(generate_template(self.template_generator, names, feature_matrix,
                                     comparison_date, None))
        Matrix(names, matched_features) ==
            IF matched_features.raised THEN [raised |-> TRUE, report |-> None]
            ELSE Template(names,
                          generate_feature_matrix(self.matrix_generator, matched_features.value))
        Match(names) ==
            IF names.raised THEN [raised |-> TRUE, report |-> None]
            ELSE Matrix(names.value, match_features(self.feature_matcher, products_data))
        Try(attempt) == IF attempt.raised THEN HandleError(products_data) ELSE attempt.report
    IN Try(Match(product_names(products_data)))

-----------------------------------------------------------------------------
(* The file system and save_comparison_report.  A path is the sequence of *)
(* its components, relative to the working directory <<>>; an absolute     *)
(* path starts with the component "/".                                     *)

\* the working directory, the root and /tmp, and no file
NoFiles == [dirs |-> {<<>>, <<"/">>, <<"/", "tmp">>}, files |-> <<>>]

\* Path("output")
output_dir == <<"output">>

\* output_dir / filename: an absolute filename replaces the directory
JoinPath(dir, filename) ==
    IF Len(filename) > 0 /\ filename[1] = "/" THEN filename ELSE dir \o filename

\* the path the operating system opens: a component followed by ".." is dropped with it
RECURSIVE Resolve(_)
Resolve(path) ==
    IF \E i \in 2..Len(path) : path[i] = ".."
    THEN LET Drop(i) == Resolve(SubSeq(path, 1, i - 2) \o SubSeq(path, i + 1, Len(path)))
         IN Drop(CHOOSE i \in 2..Len(path) :
                     path[i] = ".." /\ \A j \in 2..(i - 1) : path[j] # "..")
    ELSE path

\* the directory and the directories above it
Ancestors(path) == {SubSeq(path, 1, k) : k \in 0..Len(path)}

\* path.mkdir(parents=True, exist_ok=True): the file system with the directory, or
\* FileExistsError when a file has its name
Mkdir(files, path) ==
    IF \E a \in Ancestors(path) : DictHas(files.files, a) THEN Raise("FileExistsError", <<>>)
    ELSE Return([files EXCEPT !.dirs = @ \cup Ancestors(path)])

\* open(path, "w") and write(text): the file system with the file, or the OSError of a
\* path that is a directory, that runs through a file, or whose directory is missing
OpenWrite(files, path, text) ==
    LET Open(target) ==
            IF target \in files.dirs THEN Raise("IsADirectoryError", <<>>)
            ELSE IF \E a \in Ancestors(target) \ {target} : DictHas(files.files, a)
            THEN Raise("NotADirectoryError", <<>>)
            ELSE IF SubSeq(target, 1, Len(target) - 1) \notin files.dirs
            THEN Raise("FileNotFoundError", <<>>)
            ELSE Return([files EXCEPT !.files = DictSet(@, target, text)])
    IN Open(Resolve(path))

\* <<what save_comparison_report returns or raises, the file system it leaves>>
save_comparison_report(self, files, report, filename) ==
    LET Failed == Raise("DataProcessingError",
                        [filename |-> filename, output_dir |-> output_dir])
        Save(made, written) ==
            IF written.raised THEN <<Failed, made>>
            ELSE <<Return(JoinPath(output_dir, filename)), written.value>>
        Write(made) ==
            IF made.raised THEN <<Failed, files>>
            ELSE Save(made.value,
                      OpenWrite(made.value, JoinPath(output_dir, filename), report))
    IN Write(Mkdir(files, output_dir))

-----------------------------------------------------------------------------
(* The engines and the inputs the operations are applied to.               *)

Engines == {1, 2}

ConfigInit == [e \in Engines |-> ComparisonEngine]

\* texts of the shape <prefix><number><separator><unit>, the number possibly absent (-1)
NumberPool == {0, 1, 8, 12, 189, 512, 2800, 16384}
DrawnInts == {n \in NumberPool : n < Pow10(MaxDigits)} \cup {-1}
Prefixes == {<<>>, <<"v", "2", " ">>, <<"c", "a", " ">>}
Separators == {<<>>, <<" ">>}
UnitTexts ==
    {U_KB, U_MB, U_GB, U_TB, U_cm, U_mm, U_inch, U_quote, U_MHz, U_GHz, U_mAh, U_Wh,
     U_mg, U_g, U_kg, U_oz, U_lb, U_pixels, U_Hz,
     <<>>, <<"g", "b">>, <<"M", "P">>, <<"x", "1", "0", "8", "0">>}
UnitCategories ==
    {S_storage, S_memory, S_display, S_processor, S_battery, S_weight,
     S_resolution, S_refresh_rate, S_camera}

NumberText(ip, half) ==
    IF ip < 0 THEN <<>> ELSE IntToStr(ip) \o (IF half THEN <<".", "5">> ELSE <<>>)

UnitInputs ==
    {[prefix |-> pre, ip |-> ip, half |-> half, sep |-> sep, unit |-> u, category |-> c,
      value_str |-> StrVal(pre \o NumberText(ip, half) \o sep \o u),
      value |-> None, from_unit |-> None, value2 |-> None] :
        pre \in Prefixes, ip \in DrawnInts, half \in BOOLEAN, sep \in Separators,
        u \in UnitTexts, c \in UnitCategories}
    \cup {[prefix |-> <<>>, ip |-> 8, half |-> FALSE, sep |-> <<>>, unit |-> <<>>,
           category |-> c, value_str |-> IntVal(8), value |-> None, from_unit |-> None, value2 |-> None] :
              c \in UnitCategories}

-----------------------------------------------------------------------------
(* The UnitConverter operations applied to drawn texts.                    *)

InitUnit ==
    /\ config = ConfigInit
    /\ fs = NoFiles
    /\ calls = <<>>
    /\ op = "input"
    /\ input \in UnitInputs
    /\ output = None

ExtractValueAndUnit ==
    /\ op = "input"
    /\ op' = "extract_value_and_unit"
    /\ output' = extract_value_and_unit(config[1].unit_converter, input.value_str, input.category)
    /\ UNCHANGED <<config, fs, calls, input>>

NormalizeForComparison ==
    /\ op = "input"
    /\ op' = "normalize_for_comparison"
    /\ output' = normalize_for_comparison(config[1].unit_converter, input.value_str, input.category)
    /\ UNCHANGED <<config, fs, calls, input>>

\* convert_to_base_unit on an extracted value and unit, under any category
ConvertToBaseUnit ==
    /\ op = "extract_value_and_unit"
    /\ output[1] # None /\ output[2] # None
    /\ \E c \in UnitCategories :
          /\ input' = [input EXCEPT !.category = c, !.value = output[1], !.from_unit = output[2]]
          /\ output' = convert_to_base_unit(config[1].unit_converter, output[1], output[2], c)
    /\ op' = "convert_to_base_unit"
    /\ UNCHANGED <<config, fs, calls>>

\* the second argument of compare_values
SecondTexts ==
    {StrVal(<<"1", "2", "G", "B">>), StrVal(<<"5", "1", "2", "M", "B">>),
     StrVal(<<"1", "2", "p", "x">>), StrVal(<<"n", "o", "n", "e">>)}

CompareValues ==
    /\ op = "input"
    /\ \E value2 \in SecondTexts :
          /\ input' = [input EXCEPT !.value2 = value2]
          /\ output' = compare_values(config[1].unit_converter, input.value_str, value2,
                                      input.category)
    /\ op' = "compare_values"
    /\ UNCHANGED <<config, fs, calls>>

NextUnit ==
    ExtractValueAndUnit \/ NormalizeForComparison \/ ConvertToBaseUnit \/ CompareValues

SpecUnit == InitUnit /\ [][NextUnit]_vars

-----------------------------------------------------------------------------
(* Properties of the UnitConverter, under SpecUnit.                        *)

\* the drawn text is a str
TextDrawn == input.value_str.t = "str"

\* the value of the drawn number, from the integer it was written from
DrawnNumber == Frac(2 * input.ip + (IF input.half THEN 1 ELSE 0), 2)

\* the value of the first number in the drawn text: the leftmost digit run, with the
\* digits after a decimal point when there are any
FirstNumber ==
    LET text == input.value_str.s
        a == CHOOSE i \in 1..Len(text) :
                IsDigit(text[i]) /\ \A j \in 1..(i - 1) : ~IsDigit(text[j])
        b == CHOOSE j \in a..Len(text) :
                /\ \A m \in a..j : IsDigit(text[m])
                /\ (j = Len(text) \/ ~IsDigit(text[j + 1]))
        hasFraction == b + 2 <= Len(text) /\ text[b + 1] = "." /\ IsDigit(text[b + 2])
        c == CHOOSE j \in (b + 2)..Len(text) :
                /\ \A m \in (b + 2)..j : IsDigit(text[m])
                /\ (j = Len(text) \/ ~IsDigit(text[j + 1]))
    IN IF hasFraction
       THEN Frac(DigitsToInt(SubSeq(text, a, b)) * Pow10(c - b - 1)
                     + DigitsToInt(SubSeq(text, b + 2, c)), Pow10(c - b - 1))
       ELSE Frac(DigitsToInt(SubSeq(text, a, b)), 1)

\* some number of the drawn text is followed, after optional spaces, by a unit token of
\* the drawn category's table
UnitAfterNumber ==
    LET text == input.value_str.s
        units == DictKeys(DictGet(conversion_factors, input.category))
    IN \E i \in 1..Len(text) : \E k \in i..Len(text) : \E n \in 1..Len(units) :
          /\ IsDigit(text[i])
          /\ \A m \in (i + 1)..k : text[m] = " "
          /\ HasAt(text, k, units[n])

\* C8: for a category that declares no conversion table, a text that is a bare number
\* without unit letters gives (number, None) from extract_value_and_unit and the number
\* with the category's base unit from normalize_for_comparison; (None, None) is returned
\* only for a text that contains no number.
C8_BareNumberWithoutTable ==
    (TextDrawn /\ ~DictHas(conversion_factors, input.category)
        /\ op \in {"extract_value_and_unit", "normalize_for_comparison"})
    => /\ (input.prefix = <<>> /\ input.ip >= 0 /\ input.unit = <<>>)
          => output = <<DrawnNumber,
                        IF op = "extract_value_and_unit" THEN None
                        ELSE DictGetOr(base_units, input.category, <<>>)>>
       /\ output = <<None, None>>
          => \A i \in 1..Len(input.value_str.s) : ~IsDigit(input.value_str.s[i])

\* C9: for a category with a conversion table and a unit token u of that table,
\* normalize_for_comparison of the text "<n><u>" (a space allowed between) returns n times
\* the table factor of u, in the category's base unit; convert_to_base_unit returns value
\* and unit unchanged when the category or the unit is not in the table.
C9_TableConversion ==
    /\ (/\ op = "normalize_for_comparison" /\ TextDrawn
        /\ input.prefix = <<>> /\ input.ip >= 0
        /\ DictHas(conversion_factors, input.category)
        /\ DictHas(DictGet(conversion_factors, input.category), input.unit))
       => LET factor == DictGet(DictGet(conversion_factors, input.category), input.unit)
          IN output = <<Frac(DrawnNumber[1] * factor[1], DrawnNumber[2] * factor[2]),
                        DictGet(base_units, input.category)>>
    /\ (/\ op = "convert_to_base_unit"
        /\ \/ ~DictHas(conversion_factors, input.category)
           \/ ~DictHas(DictGet(conversion_factors, input.category), input.from_unit))
       => output = <<input.value, input.from_unit>>

\* 1TB under storage is 1024 GB
C9_Witness ==
    /\ op = "normalize_for_comparison"
    /\ input.value_str = StrVal(<<"1", "T", "B">>)
    /\ input.category = S_storage
    /\ output = <<<<1024, 1>>, U_GB>>

\* C10: for a category with a conversion table, a text that contains a number but no unit
\* token of that category after a number makes extract_value_and_unit return (first number
\* of the text, None) and normalize_for_comparison return that number with the category's
\* base unit.
C10_NoUnitMeansBaseUnit ==
    (/\ op \in {"extract_value_and_unit", "normalize_for_comparison"} /\ TextDrawn
     /\ DictHas(conversion_factors, input.category)
     /\ \E i \in 1..Len(input.value_str.s) : IsDigit(input.value_str.s[i])
     /\ ~UnitAfterNumber)
    => output = <<FirstNumber,
                  IF op = "extract_value_and_unit" THEN None
                  ELSE DictGet(base_units, input.category)>>

\* 8gb under memory: the lower-case unit is not a token of the table, the result is 8 GB
C10_Witness ==
    /\ op = "normalize_for_comparison"
    /\ input.value_str = StrVal(<<"8", "g", "b">>)
    /\ input.category = S_memory
    /\ output = <<<<8, 1>>, U_GB>>

\* C11: compare_values returns (None, None, None) exactly when one of the two texts does
\* not normalize; otherwise it returns the two normalized numbers and one unit in which
\* both numbers are expressed, the base unit of the category where it declares one.
C11_CompareValuesOneUnit ==
    op = "compare_values"
    => LET Compared(norm1, norm2) ==
               IF norm1[1] = None \/ norm2[1] = None THEN output = <<None, None, None>>
               ELSE /\ output[1] = norm1[1]
                    /\ output[2] = norm2[1]
                    /\ output[3] = norm1[2]
                    /\ output[3] = norm2[2]
                    /\ DictHas(base_units, input.category)
                       => output[3] = DictGet(base_units, input.category)
       IN Compared(normalize_for_comparison(UnitConverter, input.value_str, input.category),
                   normalize_for_comparison(UnitConverter, input.value2, input.category))

-----------------------------------------------------------------------------
(* Product lists drawn for match_features and generate_feature_matrix.     *)

L_RAM == <<"R", "A", "M">>
L_Memory == <<"M", "e", "m", "o", "r", "y">>
L_RAM_Memory == <<"R", "A", "M", " ", "M", "e", "m", "o", "r", "y">>
L_Weight == <<"W", "e", "i", "g", "h", "t">>
L_Resolution == <<"R", "e", "s", "o", "l", "u", "t", "i", "o", "n">>
L_Refresh_Rate == <<"R", "e", "f", "r", "e", "s", "h", " ", "R", "a", "t", "e">>

\* specifications of one product: category -> label -> value
SpecPool ==
    {<<<<S_memory, <<<<L_RAM, StrVal(<<"8", "G", "B">>)>>>>>>>>,
     <<<<S_memory, <<<<L_Memory, StrVal(<<"1", "2", "G", "B">>)>>>>>>>>,
     <<<<S_memory, <<<<L_RAM_Memory, StrVal(<<"1", "6", "G", "B">>)>>>>>>>>,
     <<<<S_other, <<<<L_RAM, StrVal(<<"8", "G", "B">>)>>>>>>>>,
     <<<<S_other, <<<<L_Memory, StrVal(<<"1", "2", "G", "B">>)>>>>>>>>,
     <<<<S_other, <<<<L_RAM_Memory, StrVal(<<"1", "6", "G", "B">>)>>>>>>>>,
     <<<<S_weight, <<<<L_Weight, StrVal(<<"1", " ", "k", "g">>)>>>>>>>>,
     <<<<S_display, <<<<L_Resolution, StrVal(<<"1", "9", "2", "0", "x", "1", "0", "8", "0">>)>>>>>>>>,
     <<<<S_display, <<<<L_Resolution, StrVal(<<"2", "5", "6", "0", "x", "1", "4", "4", "0">>)>>>>>>>>,
     <<<<S_display, <<<<L_Refresh_Rate, StrVal(<<"1", "2", "0", "H", "z">>)>>>>>>>>,
     <<<<S_memory, <<<<L_RAM, IntVal(8)>>>>>>>>,
     <<<<S_memory, <<<<L_RAM, StrVal(<<"8", "G", "B">>)>>,
                     <<L_RAM_Memory, StrVal(<<"1", "6", "G", "B">>)>>>>>>>>,
     <<<<S_other, <<<<L_RAM_Memory, StrVal(<<"1", "6", "G", "B">>)>>,
                    <<L_Memory, StrVal(<<"1", "2", "G", "B">>)>>,
                    <<L_RAM, StrVal(<<"8", "G", "B">>)>>>>>>>>,
     <<>>}

Names == {<<"A">>, <<"B">>}

Product(has_name, product_name, has_specs, specifications) ==
    [has_name |-> has_name, product_name |-> product_name,
     has_specs |-> has_specs, specifications |-> specifications]

\* named products with any specifications, nameless products with RAM-like labels, and a
\* product without the specifications key
ProductPool ==
    {Product(TRUE, n, TRUE, sp) : n \in Names, sp \in SpecPool}
    \cup {Product(FALSE, <<>>, TRUE, sp) :
            sp \in {x \in SpecPool : Len(x) > 0 /\ x[1][1] = S_other}}
    \cup {Product(TRUE, <<"A">>, FALSE, <<>>)}

ProductLists ==
    {[t |-> "list", items |-> items] :
        items \in UNION {[1..n -> ProductPool] : n \in 0..MaxProducts}}
    \cup {[t |-> "NoneType", items |-> <<>>]}

-----------------------------------------------------------------------------
(* match_features and generate_feature_matrix applied to drawn lists.      *)

InitMatch ==
    /\ config = ConfigInit
    /\ fs = NoFiles
    /\ calls = <<>>
    /\ op = "input"
    /\ input \in {[products_data |-> pd, matched_features |-> <<>>, sections |-> None,
                     feature_key |-> <<>>] : pd \in ProductLists}
    /\ output = None

MatchFeatures ==
    /\ op = "input"
    /\ op' = "match_features"
    /\ output' = match_features(config[1].feature_matcher, input.products_data)
    /\ UNCHANGED <<config, fs, calls, input>>

GenerateFeatureMatrix ==
    /\ op = "match_features"
    /\ ~output.raised
    /\ op' = "generate_feature_matrix"
    /\ input' = [input EXCEPT !.matched_features = output.value]
    /\ output' = Return(generate_feature_matrix(config[1].matrix_generator, output.value))
    /\ UNCHANGED <<config, fs, calls>>

\* section lists a caller gives: none, the empty list, recognized names in an order of
\* their own, a name twice, and names outside the recognized ones
SectionLists ==
    {None, <<>>, <<"conclusion", "header">>,
     <<"feature_highlights", "appendix", "comparison_matrix", "introduction">>,
     <<"methodology", "summary", "methodology">>}

\* generate_template on the matrix, for the names of the products of a list and a drawn
\* section list
GenerateTemplate ==
    /\ op = "generate_feature_matrix"
    /\ ~product_names(input.products_data).raised
    /\ \E sections \in SectionLists :
          /\ input' = [input EXCEPT !.sections = sections]
          /\ output' = generate_template(config[1].template_generator,
                                         product_names(input.products_data).value,
                                         output.value, <<"2024-01-01">>, sections)
    /\ op' = "generate_template"
    /\ UNCHANGED <<config, fs, calls>>

\* labels given to _categorize_feature: the flattened labels of the drawn products, as
\* match_features gives them, and labels without a category before them
L_Color == <<"C", "o", "l", "o", "r">>

FeatureKeys(products_data) ==
    {L_Color, L_Weight}
    \cup (IF products_data.t # "list" THEN {}
          ELSE UNION {Range(DictKeys(FlattenSpecs(products_data.items[i].specifications))) :
                         i \in 1..Len(products_data.items)})

\* _categorize_feature on a drawn label
CategorizeFeature ==
    /\ op = "input"
    /\ \E feature_key \in FeatureKeys(input.products_data) :
          /\ input' = [input EXCEPT !.feature_key = feature_key]
          /\ output' = _categorize_feature(config[1].feature_matcher, feature_key)
    /\ op' = "_categorize_feature"
    /\ UNCHANGED <<config, fs, calls>>

NextMatch == MatchFeatures \/ GenerateFeatureMatrix \/ GenerateTemplate \/ CategorizeFeature

SpecMatch == InitMatch /\ [][NextMatch]_vars

-----------------------------------------------------------------------------
(* Properties of matching and of the matrix, under SpecMatch.              *)

\* the drawn products and their display names
Items == input.products_data.items
NameOf(i) == ProductName(Items[i], i)

\* product i has exactly one specification, under category cat with label key
HasOnly(i, cat, key) ==
    /\ Items[i].has_specs
    /\ Len(Items[i].specifications) = 1
    /\ Items[i].specifications[1][1] = cat
    /\ Len(Items[i].specifications[1][2]) = 1
    /\ Items[i].specifications[1][2][1][1] = key

\* C1: N products, each with a distinct RAM-like label among RAM, Memory, RAM Memory under
\* the nested category memory or under other, in any order: match_features places the
\* contributions of all N products under one canonical label of category memory.
C1_RamLabelsUnderOneCanonicalLabel ==
    (/\ op = "match_features"
     /\ Len(Items) >= 1
     /\ \A i \in 1..Len(Items) :
           \E cat \in {S_memory, S_other} : \E key \in {L_RAM, L_Memory, L_RAM_Memory} :
               HasOnly(i, cat, key)
     /\ \A i, j \in 1..Len(Items) :
           i # j => /\ NameOf(i) # NameOf(j)
                    /\ Items[i].specifications[1][2][1][1] # Items[j].specifications[1][2][1][1])
    => /\ ~output.raised
       /\ \E f \in 1..Len(DictGet(output.value, S_memory)) :
             \A i \in 1..Len(Items) :
                 \E k \in 1..Len(DictGet(output.value, S_memory)[f][2]) :
                     DictGet(output.value, S_memory)[f][2][k][1] = NameOf(i)

\* C2: a product whose specifications use a nested category outside the vocabulary (weight)
\* is accepted: match_features returns and the entries of that category are in the result.
C2_FreeFormCategoryAccepted ==
    (/\ op = "match_features"
     /\ \E i \in 1..Len(Items) : HasOnly(i, S_weight, L_Weight))
    => /\ ~output.raised
       /\ \A i \in 1..Len(Items) :
             HasOnly(i, S_weight, L_Weight)
             => \E c \in 1..Len(output.value) : \E f \in 1..Len(output.value[c][2]) :
                   \E k \in 1..Len(output.value[c][2][f][2]) :
                       output.value[c][2][f][2][k][1] = NameOf(i)

\* C3: for every product list, the empty one included, match_features returns a mapping
\* with all twelve categories as keys, and generate_feature_matrix keeps every key.
C3_AllCategoriesPresent ==
    /\ op = "match_features"
       => /\ ~output.raised
          /\ \A c \in {S_processor, S_memory, S_storage, S_display, S_camera, S_battery,
                       S_dimensions, S_connectivity, S_os, S_price, S_graphics, S_other} :
                DictHas(output.value, c)
    /\ op = "generate_feature_matrix"
       => DictKeys(output.value) = DictKeys(input.matched_features)

\* C7: an annotation stored for a label containing "resolution" has the higher-is-better
\* policy and the unit pixels; one for a label containing "refresh" and "rate" has the
\* higher-is-better policy and the unit Hz.
C7_LabelOverridesSetUnit ==
    op = "generate_feature_matrix"
    => \A c \in 1..Len(output.value) : \A f \in 1..Len(output.value[c][2]) :
          LET label == lower(output.value[c][2][f][1])
              row == output.value[c][2][f][2]
          IN DictHas(row, S_comparison)
             => /\ IsSubstr(S_resolution, label)
                   => /\ DictGet(row, S_comparison).type = "higher_better"
                      /\ DictGet(row, S_comparison).unit = U_pixels
                /\ (IsSubstr(S_refresh, label) /\ IsSubstr(S_rate, label))
                   => /\ DictGet(row, S_comparison).type = "higher_better"
                      /\ DictGet(row, S_comparison).unit = U_Hz

-----------------------------------------------------------------------------
(* compare_products called repeatedly on the engines.                      *)

\* the arguments compare_products is called with
CallLists ==
    {[t |-> "list", items |-> <<>>],
     [t |-> "list", items |->
        <<Product(TRUE, <<"A">>, TRUE, <<<<S_memory, <<<<L_RAM, StrVal(<<"8", "G", "B">>)>>>>>>>>),
          Product(TRUE, <<"B">>, TRUE, <<<<S_memory, <<<<L_RAM, StrVal(<<"1", "2", "G", "B">>)>>>>>>>>)>>],
     [t |-> "list", items |->
        <<Product(TRUE, <<"A">>, TRUE, <<<<S_display, <<<<L_Resolution, StrVal(<<"1", "9", "2", "0", "x", "1", "0", "8", "0">>)>>>>>>>>)>>],
     [t |-> "list", items |->
        <<Product(TRUE, <<"A">>, TRUE, <<<<S_memory, <<<<L_RAM, IntVal(8)>>>>>>>>)>>],
     [t |-> "list", items |->
        <<Product(TRUE, <<"A">>, TRUE, <<<<S_weight, <<<<L_Weight, StrVal(<<"1", " ", "k", "g">>)>>>>>>>>)>>],
     [t |-> "NoneType", items |-> <<>>],
     [t |-> "int", n |-> 5],
     [t |-> "str", s |-> <<"a", "b", "c">>]}

CallDates == {<<"2024-01-01">>}

Init ==
    /\ config = ConfigInit
    /\ fs = NoFiles
    /\ calls = <<>>
    /\ op = "idle"
    /\ input = None
    /\ output = None

\* the products the earlier calls on engine e were given
PriorItems(e) ==
    Fold(LAMBDA acc, c : IF c.engine = e /\ c.products_data.t = "list"
                         THEN acc \o c.products_data.items ELSE acc,
         <<>>, calls, 1)

\* an engine that keeps the products of its earlier calls
CompareProductsAccumulating(e, products_data, comparison_date) ==
    /\ Len(calls) < MaxCalls
    /\ op' = "compare_products"
    /\ input' = [products_data |-> products_data, comparison_date |-> comparison_date]
    /\ output' = compare_products(config[e],
                                  IF products_data.t = "list"
                                  THEN [products_data EXCEPT !.items = PriorItems(e) \o @]
                                  ELSE products_data,
                                  comparison_date)
    /\ calls' = Append(calls, [engine |-> e, products_data |-> products_data,
                               comparison_date |-> comparison_date, outcome |-> output'])
    /\ UNCHANGED <<config, fs>>

\* engine e runs compare_products(products_data, comparison_date); the engine's attributes
\* are only read
CompareProducts(e, products_data, comparison_date) ==
    /\ Len(calls) < MaxCalls
    /\ op' = "compare_products"
    /\ input' = [products_data |-> products_data, comparison_date |-> comparison_date]
    /\ output' = compare_products(config[e], products_data, comparison_date)
    /\ calls' = Append(calls, [engine |-> e, products_data |-> products_data,
                               comparison_date |-> comparison_date, outcome |-> output'])
    /\ UNCHANGED <<config, fs>>

Next ==
    \E e \in Engines : \E products_data \in CallLists : \E comparison_date \in CallDates :
        CompareProducts(e, products_data, comparison_date)

Spec == Init /\ [][Next]_vars

-----------------------------------------------------------------------------
(* Properties of compare_products, under Spec.                             *)

C5_OnlyDataProcessingError ==
    \A i \in 1..Len(calls) :
        calls[i].outcome.raised
        => /\ calls[i].outcome.exc = "DataProcessingError"
           /\ "product_count" \in DOMAIN calls[i].outcome.details

\* C6: a call whose products give an integer as a specification value, under a category
\* of the vocabulary, returns a report that shows the integer.
C6_ScalarValueRendered ==
    \A i \in 1..Len(calls) : \A n \in 0..9 :
        (/\ calls[i].products_data.t = "list"
         /\ \E p \in 1..Len(calls[i].products_data.items) :
               calls[i].products_data.items[p].specifications =
                   <<<<S_memory, <<<<L_RAM, IntVal(n)>>>>>>>>)
        => /\ ~calls[i].outcome.raised
           /\ IsSubstr(IntToStr(n), calls[i].outcome.value)

-----------------------------------------------------------------------------
(* generate_feature_matrix and the rendering applied to drawn matched      *)
(* features of one feature.                                                *)

\* the products of the rendered report
MatrixProducts == SubSeq(<<<<"A">>, <<"B">>, <<"C">>, <<"D">>>>, 1, MaxProducts)

\* the mark of a product that does not report the feature
NotReported == [t |-> "absent"]

\* what a product reports for the feature
MatrixValues ==
    {StrVal(<<"8", "G", "B">>), StrVal(<<"1", "2", "G", "B">>),
     StrVal(<<"8", "1", "9", "2", "M", "B">>), StrVal(<<"1", " ", "k", "g">>),
     StrVal(<<"1", "8", "9", " ", "g">>), StrVal(<<"n", "o", "n", "e">>), IntVal(8), NotReported}

MatrixCategories == {S_memory, S_weight, S_display, S_battery, S_resolution, S_camera}

MatrixLabels == {L_RAM, L_Weight, L_Resolution, L_Refresh_Rate}

Reverse(s) == [i \in 1..Len(s) |-> s[Len(s) + 1 - i]]

\* the contributions of the products that report a value, in product order
Contributions(values) ==
    Fold(LAMBDA acc, i : IF values[i] = NotReported THEN acc
                         ELSE Append(acc, <<MatrixProducts[i], values[i]>>),
         <<>>, [i \in 1..Len(values) |-> i], 1)

\* further categories of the matched features: none, or storage with one feature that
\* one product, or two products, report
MoreCategories ==
    {<<>>,
     <<<<S_storage, <<<<L_Memory, <<<<MatrixProducts[1], StrVal(<<"8", "G", "B">>)>>>>>>>>>>>>,
     <<<<S_storage, <<<<L_Memory, <<<<MatrixProducts[1], StrVal(<<"8", "G", "B">>)>>,
                                   <<MatrixProducts[2], StrVal(<<"1", "2", "G", "B">>)>>>>>>>>>>>>}

\* matched features of one category with one feature, and the further categories
MatchedPool ==
    {<<<<category, <<<<label, contributions>>>>>>>> \o more :
        category \in MatrixCategories, label \in MatrixLabels,
        contributions \in
            UNION {{Contributions(values), Reverse(Contributions(values))} :
                      values \in [1..MaxProducts -> MatrixValues]},
        more \in MoreCategories}

InitMatrix ==
    /\ config = ConfigInit
    /\ fs = NoFiles
    /\ calls = <<>>
    /\ op = "input"
    /\ input \in {[matched_features |-> m, feature_matrix |-> None] : m \in MatchedPool}
    /\ output = None

GenerateFeatureMatrixOf ==
    /\ op = "input"
    /\ op' = "generate_feature_matrix"
    /\ output' = generate_feature_matrix(config[1].matrix_generator, input.matched_features)
    /\ UNCHANGED <<config, fs, calls, input>>

\* generate_markdown_table on the matrix, for the products of the report
GenerateMarkdownTable ==
    /\ op = "generate_feature_matrix"
    /\ op' = "generate_markdown_table"
    /\ input' = [input EXCEPT !.feature_matrix = output]
    /\ output' = generate_markdown_table(output, MatrixProducts)
    /\ UNCHANGED <<config, fs, calls>>

\* _generate_feature_highlights on the matrix
GenerateFeatureHighlights ==
    /\ op = "generate_feature_matrix"
    /\ op' = "_generate_feature_highlights"
    /\ input' = [input EXCEPT !.feature_matrix = output]
    /\ output' = _generate_feature_highlights(output)
    /\ UNCHANGED <<config, fs, calls>>

NextMatrix == GenerateFeatureMatrixOf \/ GenerateMarkdownTable \/ GenerateFeatureHighlights

SpecMatrix == InitMatrix /\ [][NextMatrix]_vars

-----------------------------------------------------------------------------
(* Properties of the matrix and its rendering, under SpecMatrix.           *)

\* the drawn feature: its category, label and contributions, and its row of the matrix
TheCategory == input.matched_features[1][1]
TheLabel == input.matched_features[1][2][1][1]
TheContributions == input.matched_features[1][2][1][2]
TheRow == IF op = "generate_feature_matrix" THEN output[1][2][1][2]
          ELSE input.feature_matrix[1][2][1][2]

\* the normalized value of the i-th contribution, None when it does not normalize
Normalized(i) ==
    IF TheContributions[i][2].t # "str" THEN None
    ELSE normalize_for_comparison(UnitConverter, TheContributions[i][2], TheCategory)[1]

\* the contributions whose value normalizes
Comparable == {i \in 1..Len(TheContributions) : Normalized(i) # None}

\* the label triggers one of the overrides
LabelOverride ==
    \/ IsSubstr(S_resolution, lower(TheLabel))
    \/ IsSubstr(S_refresh, lower(TheLabel)) /\ IsSubstr(S_rate, lower(TheLabel))

\* the row is annotated with the policy and the product of contribution i
BestIs(type, i) ==
    /\ DictHas(TheRow, S_comparison)
    /\ DictGet(TheRow, S_comparison).type = type
    /\ DictGet(TheRow, S_comparison).best_product = TheContributions[i][1]

\* the first comparable contribution with the largest, the smallest normalized value
FirstMax ==
    CHOOSE i \in Comparable :
        /\ \A j \in Comparable : FracLeq(Normalized(j), Normalized(i))
        /\ \A j \in Comparable : j < i => FracLess(Normalized(j), Normalized(i))
FirstMin ==
    CHOOSE i \in Comparable :
        /\ \A j \in Comparable : FracLeq(Normalized(i), Normalized(j))
        /\ \A j \in Comparable : j < i => FracLess(Normalized(i), Normalized(j))

\* C12 as stated: with two or more comparable products, a feature of processor, memory,
\* storage or display names the first product with the maximum as best_product, and a
\* feature of weight names the first product with the minimum, lower-is-better.
C12_BestByCategory ==
    (op = "generate_feature_matrix" /\ Cardinality(Comparable) >= 2)
    => /\ TheCategory \in {S_processor, S_memory, S_storage, S_display}
          => BestIs("higher_better", FirstMax)
       /\ TheCategory = S_weight => BestIs("lower_better", FirstMin)

\* C12 amended: the same, the weight rule for a label that triggers no override; a weight
\* feature whose label triggers one names the first product with the maximum.
C12_BestByCategoryUnlessOverride ==
    (op = "generate_feature_matrix" /\ Cardinality(Comparable) >= 2)
    => /\ TheCategory \in {S_processor, S_memory, S_storage, S_display}
          => BestIs("higher_better", FirstMax)
       /\ (TheCategory = S_weight /\ ~LabelOverride) => BestIs("lower_better", FirstMin)
       /\ (TheCategory = S_weight /\ LabelOverride) => BestIs("higher_better", FirstMax)

\* of 1 kg and 189 g under weight, labelled Weight, the 189 g product is best
C12_Witness ==
    /\ op = "generate_feature_matrix"
    /\ TheCategory = S_weight /\ TheLabel = L_Weight
    /\ TheContributions = <<<<<<"A">>, StrVal(<<"1", " ", "k", "g">>)>>,
                            <<<<"B">>, StrVal(<<"1", "8", "9", " ", "g">>)>>>>
    /\ BestIs("lower_better", 2)

\* the annotation of the drawn feature's row
TheAnnotation == DictGet(TheRow, S_comparison)

\* C13: a feature row carries an annotation only if its category has a declared base unit,
\* two or more of its products have values that normalize and the policy is not neutral
\* (battery, resolution and refresh_rate features without a label override carry none);
\* best_product is then a key of normalized_values, which has two or more entries, and has
\* a value cell in the row.
C13_AnnotationOnlyWhenComparable ==
    op = "generate_feature_matrix"
    => /\ DictHas(TheRow, S_comparison)
          => /\ DictHas(base_units, TheCategory)
             /\ Cardinality(Comparable) >= 2
             /\ \/ TheCategory \in {S_processor, S_memory, S_storage, S_display, S_weight}
                \/ LabelOverride
             /\ DictHas(TheAnnotation.normalized_values, TheAnnotation.best_product)
             /\ Len(TheAnnotation.normalized_values) >= 2
             /\ DictHas(TheRow, TheAnnotation.best_product)
             /\ TheAnnotation.best_product # S_comparison
       /\ (TheCategory \in {S_battery, S_resolution, S_refresh_rate} /\ ~LabelOverride)
          => ~DictHas(TheRow, S_comparison)

\* a battery feature of two comparable products, labelled Refresh Rate, is annotated
C13_Witness ==
    /\ op = "generate_feature_matrix"
    /\ TheCategory = S_battery /\ TheLabel = L_Refresh_Rate
    /\ Cardinality(Comparable) = 2
    /\ DictHas(TheRow, S_comparison)
    /\ Len(TheAnnotation.normalized_values) = 2

\* the cells of the drawn feature's line of the rendered table: the feature key, then one
\* cell per product; the line follows the heading, a blank line and the two header lines
RenderedCells ==
    LET Cells(line) == SplitAt(SubSeq(line, 2, Len(line) - 1), " | ")
    IN Cells(SplitAt(output.value, "\n")[5])

\* the i-th product of the report is absent from the drawn feature's contributions
Absent(i) ==
    \A k \in 1..Len(TheContributions) : TheContributions[k][1] # MatrixProducts[i]

\* C14: a product absent from a feature's contributions causes no failure of the matrix or
\* of its rendering (rendering fails only on a reported value that is not a str); its cell
\* of the feature's table row is N/A and it is no key of the annotation's normalized
\* values.
C14_AbsentProductIsNA ==
    op = "generate_markdown_table"
    => /\ output.raised => \E k \in 1..Len(TheContributions) : TheContributions[k][2].t # "str"
       /\ \A i \in 1..Len(MatrixProducts) :
              Absent(i)
              => /\ ~output.raised => RenderedCells[i + 1] = S_NA
                 /\ ~DictHas(TheRow, MatrixProducts[i])
                 /\ DictHas(TheRow, S_comparison)
                    => /\ ~DictHas(TheAnnotation.normalized_values, MatrixProducts[i])
                       /\ TheAnnotation.best_product # MatrixProducts[i]

\* product A reports 8GB and product B nothing: the table is rendered with N/A for B
C14_Witness ==
    /\ op = "generate_markdown_table"
    /\ TheContributions = <<<<<<"A">>, StrVal(<<"8", "G", "B">>)>>>>
    /\ Absent(2)
    /\ ~output.raised
    /\ RenderedCells[2] = <<"8", "G", "B">>
    /\ RenderedCells[3] = S_NA

\* the cell is wrapped in bold markers
Bold(cell) == Len(cell) >= 2 /\ cell[1] = "**" /\ cell[Len(cell)] = "**"

\* the products of the report whose cell of the drawn feature's line is bold
BoldCells == {i \in 1..Len(MatrixProducts) : Bold(RenderedCells[i + 1])}

\* C15: in a rendered table a cell is bold if and only if the feature is annotated and the
\* column's product is the annotation's best_product; the product names being distinct,
\* an annotated row has exactly one bold cell; a bold cell is never the N/A cell.
C15_BoldIffBest ==
    (op = "generate_markdown_table" /\ ~output.raised)
    => /\ \A i \in 1..Len(MatrixProducts) :
              (i \in BoldCells) <=> /\ DictHas(TheRow, S_comparison)
                                   /\ TheAnnotation.best_product = MatrixProducts[i]
       /\ DictHas(TheRow, S_comparison) => Cardinality(BoldCells) = 1
       /\ \A i \in BoldCells : ~IsSubstr(S_NA, RenderedCells[i + 1])

\* of A with 8GB and B with 12GB under memory, the cell of B alone is bold
C15_Witness ==
    /\ op = "generate_markdown_table"
    /\ ~output.raised
    /\ TheCategory = S_memory
    /\ TheContributions = <<<<<<"A">>, StrVal(<<"8", "G", "B">>)>>,
                            <<<<"B">>, StrVal(<<"1", "2", "G", "B">>)>>>>
    /\ BoldCells = {2}
    /\ RenderedCells[3] = <<"**", "1", "2", "G", "B", "**">>

\* the annotated features of the matrix, as <<label, annotation>>, in matrix order
AnnotatedFeatures(feature_matrix) ==
    Fold(LAMBDA acc, cat :
            Fold(LAMBDA a, fr : IF DictHas(fr[2], S_comparison)
                                THEN Append(a, <<fr[1], DictGet(fr[2], S_comparison)>>)
                                ELSE a,
                 acc, cat[2], 1),
         <<>>, feature_matrix, 1)

FallbackLine == <<"No specific highlights identified in the comparison.">>

\* the lines of the rendered highlights between the heading with its blank line and the
\* closing blank line
HighlightLines ==
    LET Body(lines) == SubSeq(lines, 3, Len(lines) - 1)
    IN Body(SplitAt(output, "\n"))

\* the line is the bullet of the annotated feature: its best product in bold, "highest"
\* for higher-is-better and "lowest" for lower-is-better, then the label in lower case
IsBulletOf(line, feature) ==
    LET Start(word) == <<"- **">> \o feature[2].best_product \o word \o lower(feature[1])
        Starts(start) == Len(line) > Len(start) /\ SubSeq(line, 1, Len(start)) = start
    IN \/ feature[2].type = "higher_better" /\ Starts(Start(<<"** has the highest ">>))
       \/ feature[2].type = "lower_better" /\ Starts(Start(<<"** has the lowest ">>))

\* C16: the feature highlights hold exactly one bullet per annotated feature of the matrix,
\* naming its best_product with "highest" or "lowest" by its policy, and hold the fixed
\* fallback line if and only if no feature of any category is annotated.
C16_OneBulletPerAnnotatedFeature ==
    op = "_generate_feature_highlights"
    => LET Highlights(lines, annotated) ==
               /\ Len(annotated) = 0 <=> lines = <<FallbackLine>>
               /\ Len(annotated) > 0
                  => /\ Len(lines) = Len(annotated)
                     /\ \A k \in 1..Len(lines) : IsBulletOf(lines[k], annotated[k])
               /\ (\E k \in 1..Len(lines) : lines[k] = FallbackLine) <=> Len(annotated) = 0
       IN Highlights(HighlightLines, AnnotatedFeatures(input.feature_matrix))

\* a weight feature with its lowest product and a storage feature with its highest: two
\* bullets
C16_Witness ==
    /\ op = "_generate_feature_highlights"
    /\ TheCategory = S_weight /\ TheLabel = L_Weight
    /\ Len(AnnotatedFeatures(input.feature_matrix)) = 2
    /\ Len(HighlightLines) = 2
    /\ AnnotatedFeatures(input.feature_matrix)[1][2].type = "lower_better"
    /\ AnnotatedFeatures(input.feature_matrix)[2][2].type = "higher_better"

-----------------------------------------------------------------------------
(* Properties of the merged contributions, under SpecMatch.                *)

\* the clusters of a category's labels: a seed label, then the later labels similar to
\* it, in first-seen order; the labels left over are clustered in the same way
RECURSIVE ClustersOf(_)
ClustersOf(labels) ==
    IF Len(labels) = 0 THEN <<>>
    ELSE LET Similar(l) ==
                 FracLeq(FeatureMatcher.similarity_threshold,
                         _calculate_similarity(labels[1], l))
         IN <<<<labels[1]>>
              \o SelectSeq(Tail(labels), Similar)>>
            \o ClustersOf(SelectSeq(Tail(labels), LAMBDA l : ~Similar(l)))

\* the names of the products of a contribution list
ProductsOf(contributions) == {contributions[i][1] : i \in 1..Len(contributions)}

\* the value of product p under the first label of the cluster for which it has one
FirstValue(features, cluster, p) ==
    LET Under(k) == DictGet(DictGet(features, cluster[k]), p)
    IN Under(CHOOSE k \in 1..Len(cluster) :
                 /\ p \in ProductsOf(DictGet(features, cluster[k]))
                 /\ \A j \in 1..(k - 1) : p \notin ProductsOf(DictGet(features, cluster[j])))

\* the contribution lists of the result under the labels of the cluster
MergedUnder(matched, cluster) ==
    SelectSeq(matched, LAMBDA kv : kv[1] \in Range(cluster))

\* C18: in a result of match_features a contribution list holds at most one pair per
\* product name; each cluster of labels has one list, under one of its labels, with one
\* pair for each product that has a value under a label of the cluster, and the value is
\* the product's first one in merge order: the seed label's, then the other labels' in
\* first-seen order.
C18_OnePairPerProductFirstKept ==
    (op = "match_features" /\ ~output.raised)
    => LET OnePair(contributions) ==
               Cardinality(ProductsOf(contributions)) = Len(contributions)
           FirstKept(features, cluster, merged) ==
               /\ Len(merged) = 1
               /\ ProductsOf(merged[1][2])
                      = UNION {ProductsOf(DictGet(features, cluster[k])) : k \in 1..Len(cluster)}
               /\ \A i \in 1..Len(merged[1][2]) :
                      merged[1][2][i][2] = FirstValue(features, cluster, merged[1][2][i][1])
           Merged(categorized) ==
               \A c \in 1..Len(categorized) :
                   \A cluster \in Range(ClustersOf(DictKeys(categorized[c][2]))) :
                       FirstKept(categorized[c][2], cluster,
                                 MergedUnder(DictGet(output.value, categorized[c][1]), cluster))
       IN /\ \A c \in 1..Len(output.value) : \A f \in 1..Len(output.value[c][2]) :
                 OnePair(output.value[c][2][f][2])
          /\ Merged(CategorizedFeatures(FeatureMatcher, AllFeatures(Items)))

\* product A has RAM with 8GB and RAM Memory with 16GB, product B RAM Memory with 16GB:
\* the one list, under RAM Memory, keeps 8GB for A
C18_Witness ==
    /\ op = "match_features"
    /\ ~output.raised
    /\ Len(Items) = 2
    /\ NameOf(1) = <<"A">> /\ NameOf(2) = <<"B">>
    /\ Items[1].specifications
           = <<<<S_memory, <<<<L_RAM, StrVal(<<"8", "G", "B">>)>>,
                             <<L_RAM_Memory, StrVal(<<"1", "6", "G", "B">>)>>>>>>>>
    /\ HasOnly(2, S_memory, L_RAM_Memory)
    /\ DictGet(output.value, S_memory)
           = <<<<S_memory \o SEP \o L_RAM_Memory,
                <<<<<<"A">>, StrVal(<<"8", "G", "B">>)>>,
                  <<<<"B">>, StrVal(<<"1", "6", "G", "B">>)>>>>>>>>

-----------------------------------------------------------------------------
(* Properties of the report template, under SpecMatch.                     *)

\* the section a line of a report opens, "" for a line that opens none
SectionOpened(line) ==
    IF Len(line) = 0 THEN ""
    ELSE CASE line[1] = "# Product Comparison: " -> "header"
           [] line[1] = "## Introduction" -> "introduction"
           [] line[1] = "## Methodology" -> "methodology"
           [] line[1] = "## Comparison Matrix" -> "comparison_matrix"
           [] line[1] = "## Feature Highlights" -> "feature_highlights"
           [] line[1] = "## Conclusion" -> "conclusion"
           [] OTHER -> ""

\* the sections of the rendered report, in the order in which they open
SectionsOf(report) ==
    Fold(LAMBDA acc, line : IF SectionOpened(line) = "" THEN acc
                            ELSE Append(acc, SectionOpened(line)),
         <<>>, SplitAt(report, "\n"), 1)

RecognizedSections ==
    {"header", "introduction", "methodology", "comparison_matrix", "feature_highlights",
     "conclusion"}

\* C17: generate_template renders exactly the given section names that are recognized, in
\* the given order, and drops the others without raising (it raises only out of the
\* comparison matrix section); without a section list it renders all six in the default
\* order.
C17_RecognizedSectionsInGivenOrder ==
    op = "generate_template"
    => /\ output.raised
          => /\ input.sections = None \/ "comparison_matrix" \in Range(input.sections)
             /\ output.exc = "TypeError"
       /\ (~output.raised /\ input.sections # None)
          => SectionsOf(output.value)
                 = SelectSeq(input.sections, LAMBDA sec : sec \in RecognizedSections)
       /\ (~output.raised /\ input.sections = None)
          => SectionsOf(output.value)
                 = <<"header", "introduction", "methodology", "comparison_matrix",
                     "feature_highlights", "conclusion">>

\* of feature_highlights, appendix, comparison_matrix, introduction the three recognized
\* ones are rendered in that order
C17_Witness ==
    /\ op = "generate_template"
    /\ ~output.raised
    /\ input.sections = <<"feature_highlights", "appendix", "comparison_matrix", "introduction">>
    /\ SectionsOf(output.value) = <<"feature_highlights", "comparison_matrix", "introduction">>

-----------------------------------------------------------------------------
(* Properties of the categories of labels, under SpecMatch.                *)

\* the fixed set of categories
Categories ==
    {S_processor, S_memory, S_storage, S_display, S_camera, S_battery, S_dimensions,
     S_connectivity, S_os, S_price, S_graphics, S_other}

\* C19: _categorize_feature returns, for any label, a member of the fixed set of
\* categories: the category of a keyword that matches, other when none does; also for a
\* label that contains " - ".
C19_CategoryInFixedSet ==
    op = "_categorize_feature"
    => /\ output \in Categories
       /\ output = S_other
          <=> \A c \in 1..Len(feature_categories) : \A k \in 1..Len(feature_categories[c][2]) :
                 ~PatternSearch(feature_categories[c][2][k], lower(input.feature_key))

-----------------------------------------------------------------------------
(* save_comparison_report called on drawn file systems.                    *)

\* the file systems a call may find: without output, with output and output/sub, and with
\* a file named output
FileSystems ==
    {NoFiles,
     [NoFiles EXCEPT !.dirs = @ \cup {<<"output">>, <<"output", "sub">>}],
     [NoFiles EXCEPT !.files = <<<<<<"output">>, <<>>>>>>]}

\* the default file name, names with a subdirectory, the name of a directory, a name that
\* leaves the directory and an absolute name
Filenames ==
    {<<"comparison_report.md">>, <<"sub", "report.md">>, <<"new", "report.md">>, <<"sub">>,
     <<"..", "report.md">>, <<"/", "tmp", "report.md">>}

Reports == {<<"# Product Comparison: A">>, <<"# Product Comparison: B">>}

InitSave ==
    /\ config = ConfigInit
    /\ fs \in FileSystems
    /\ calls = <<>>
    /\ op = "idle"
    /\ input = None
    /\ output = None

\* engine e runs save_comparison_report(report, filename)
SaveComparisonReport(e, report, filename) ==
    LET Saved(result) ==
            /\ output' = result[1]
            /\ fs' = result[2]
            /\ calls' = Append(calls, [engine |-> e, report |-> report,
                                       filename |-> filename, outcome |-> result[1]])
    IN /\ Len(calls) < MaxCalls
       /\ op' = "save_comparison_report"
       /\ input' = [report |-> report, filename |-> filename]
       /\ Saved(save_comparison_report(config[e], fs, report, filename))
       /\ UNCHANGED config

NextSave ==
    \E e \in Engines : \E report \in Reports : \E filename \in Filenames :
        SaveComparisonReport(e, report, filename)

SpecSave == InitSave /\ [][NextSave]_vars

-----------------------------------------------------------------------------
(* Properties of save_comparison_report, under SpecSave.                   *)

\* nothing but a missing directory stands in the way of the file: no file is named
\* output, and the target is no directory
NothingInTheWay ==
    /\ ~DictHas(fs.files, output_dir)
    /\ Resolve(JoinPath(output_dir, input.filename)) \notin fs.dirs

\* C20: save_comparison_report(report, filename) writes the report under the output
\* directory for every filename, creating every missing directory above the target, also
\* for a filename with subdirectories, and returns the path of a file that exists with
\* the report as its content; a failure to write is raised as a DataProcessingError with
\* the filename and the output directory.
C20_SavedUnderOutputDir ==
    op = "save_comparison_report"
    => /\ output.raised
          => /\ output.exc = "DataProcessingError"
             /\ output.details = [filename |-> input.filename, output_dir |-> output_dir]
       /\ NothingInTheWay
          => /\ ~output.raised
             /\ output.value = output_dir \o input.filename
             /\ output_dir \in Ancestors(Resolve(output.value)) \ {Resolve(output.value)}
             /\ Ancestors(Resolve(output.value)) \ {Resolve(output.value)} \subseteq fs.dirs
             /\ DictHas(fs.files, Resolve(output.value))
             /\ DictGet(fs.files, Resolve(output.value)) = input.report

-----------------------------------------------------------------------------
(* compare_products calls running concurrently, statement by statement.   *)
(* A call in flight is a record of calls: its engine, its arguments, the   *)
(* statement it is at, and its local variables.                            *)

\* the arguments of the concurrent calls: products with an annotated feature, a product
\* with another report, a product whose value fails in rendering
ThreadLists ==
    {[t |-> "list", items |->
        <<Product(TRUE, <<"A">>, TRUE, <<<<S_memory, <<<<L_RAM, StrVal(<<"8", "G", "B">>)>>>>>>>>),
          Product(TRUE, <<"B">>, TRUE, <<<<S_memory, <<<<L_RAM, StrVal(<<"1", "2", "G", "B">>)>>>>>>>>)>>],
     [t |-> "list", items |->
        <<Product(TRUE, <<"A">>, TRUE, <<<<S_other, <<<<L_Weight, StrVal(<<"1", " ", "k", "g">>)>>>>>>>>)>>],
     [t |-> "list", items |->
        <<Product(TRUE, <<"A">>, TRUE, <<<<S_memory, <<<<L_RAM, IntVal(8)>>>>>>>>)>>]}

InitThreads ==
    /\ config = ConfigInit
    /\ fs = NoFiles
    /\ calls = <<>>
    /\ op = "idle"
    /\ input = 0
    /\ output = None

\* a thread enters compare_products(products_data, comparison_date) on engine e
StartCall(e, products_data, comparison_date) ==
    /\ Len(calls) < MaxThreads
    /\ calls' = Append(calls,
                       [engine |-> e, products_data |-> products_data,
                        comparison_date |-> comparison_date,
                        pc |-> "product_names",
                        overlaps |-> \E j \in 1..Len(calls) : calls[j].pc # "done",
                        product_names |-> <<>>, matched_features |-> <<>>,
                        feature_matrix |-> <<>>, outcome |-> None])
    /\ op' = "compare_products"
    /\ input' = Len(calls) + 1
    /\ output' = None
    /\ UNCHANGED <<config, fs>>

\* call i has run a statement of the try block: on a raise it goes on in the except
\* clause, otherwise at the next statement with the local variable assigned
Ran(i, statement, result, assigned) ==
    /\ calls' = [calls EXCEPT ![i] = IF result.raised THEN [@ EXCEPT !.pc = "except"]
                                      ELSE assigned]
    /\ op' = statement
    /\ input' = i
    /\ output' = result
    /\ UNCHANGED <<config, fs>>

\* product_names = [data.get("product_name", ...) for i, data in enumerate(products_data)]
ProductNamesStep(i) ==
    /\ calls[i].pc = "product_names"
    /\ LET Step(names) ==
               Ran(i, "product_names", names,
                   [calls[i] EXCEPT !.pc = "match_features", !.product_names = names.value])
       IN Step(product_names(calls[i].products_data))

\* matched_features = self.feature_matcher.match_features(products_data)
MatchFeaturesStep(i) ==
    /\ calls[i].pc = "match_features"
    /\ LET Step(matched) ==
               Ran(i, "match_features", matched,
                   [calls[i] EXCEPT !.pc = "generate_feature_matrix",
                                    !.matched_features = matched.value])
       IN Step(match_features(config[calls[i].engine].feature_matcher,
                              calls[i].products_data))

\* the matrix step on the matched features the engine's latest call has, as if they were
\* kept in an attribute of the engine
GenerateFeatureMatrixStep_shared(i) ==
    /\ calls[i].pc = "generate_feature_matrix"
    /\ LET Latest(j) == calls[j].matched_features
           Step(matrix) ==
               Ran(i, "generate_feature_matrix", matrix,
                   [calls[i] EXCEPT !.pc = "generate_template",
                                    !.feature_matrix = matrix.value])
       IN Step(Return(generate_feature_matrix(
                   config[calls[i].engine].matrix_generator,
                   Latest(CHOOSE j \in 1..Len(calls) :
                              /\ calls[j].engine = calls[i].engine
                              /\ \A k \in (j + 1)..Len(calls) :
                                     calls[k].engine # calls[i].engine))))
\* feature_matrix = self.matrix_generator.generate_feature_matrix(matched_features)
GenerateFeatureMatrixStep(i) ==
    /\ calls[i].pc = "generate_feature_matrix"
    /\ LET Step(matrix) ==
               Ran(i, "generate_feature_matrix", matrix,
                   [calls[i] EXCEPT !.pc = "generate_template",
                                    !.feature_matrix = matrix.value])
       IN Step(Return(generate_feature_matrix(config[calls[i].engine].matrix_generator,
                                              calls[i].matched_features)))

\* markdown_report = self.template_generator.generate_template(...); return markdown_report
GenerateTemplateStep(i) ==
    /\ calls[i].pc = "generate_template"
    /\ LET Step(markdown_report) ==
               Ran(i, "generate_template", markdown_report,
                   [calls[i] EXCEPT !.pc = "done", !.outcome = markdown_report])
       IN Step(generate_template(config[calls[i].engine].template_generator,
                                 calls[i].product_names, calls[i].feature_matrix,
                                 calls[i].comparison_date, None))

\* the except clause: the DataProcessingError is built, logged and raised
ExceptStep(i) ==
    /\ calls[i].pc = "except"
    /\ calls' = [calls EXCEPT ![i] = [@ EXCEPT !.pc = "done",
                                               !.outcome = HandleError(calls[i].products_data)]]
    /\ op' = "except"
    /\ input' = i
    /\ output' = HandleError(calls[i].products_data)
    /\ UNCHANGED <<config, fs>>

NextThreads ==
    \/ \E e \in Engines : \E products_data \in ThreadLists : \E comparison_date \in CallDates :
          StartCall(e, products_data, comparison_date)
    \/ \E i \in 1..Len(calls) :
          \/ ProductNamesStep(i)
          \/ MatchFeaturesStep(i)
          \/ GenerateFeatureMatrixStep(i)
          \/ GenerateTemplateStep(i)
          \/ ExceptStep(i)

SpecThreads == InitThreads /\ [][NextThreads]_vars

-----------------------------------------------------------------------------
(* Properties of concurrent calls, under SpecThreads.                      *)

-----------------------------------------------------------------------------
(* _calculate_similarity applied to drawn pairs of labels.                 *)

SimilarityLabels ==
    {L_RAM, L_RAM_Memory, L_Memory, <<"r", "a", "m">>, <<>>, <<" ", "-", " ">>,
     <<"M", "e", "m", "o", "r", "y", " ", "R", "A", "M">>,
     <<"S", "t", "o", "r", "a", "g", "e">>,
     <<"S", "c", "r", "e", "e", "n", " ", "S", "i", "z", "e">>,
     <<"D", "i", "s", "p", "l", "a", "y", " ", "s", "i", "z", "e">>,
     <<"s", "i", "z", "e", " ", "(", "d", "i", "s", "p", "l", "a", "y", ")">>}

InitSimilarity ==
    /\ config = ConfigInit
    /\ fs = NoFiles
    /\ calls = <<>>
    /\ op = "input"
    /\ input \in {[str1 |-> a, str2 |-> b] : a \in SimilarityLabels, b \in SimilarityLabels}
    /\ output = None

CalculateSimilarity ==
    /\ op = "input"
    /\ op' = "_calculate_similarity"
    /\ output' = _calculate_similarity(input.str1, input.str2)
    /\ UNCHANGED <<config, fs, calls, input>>

NextSimilarity == CalculateSimilarity

SpecSimilarity == InitSimilarity /\ [][NextSimilarity]_vars

-----------------------------------------------------------------------------
(* Properties of the similarity, under SpecSimilarity.                     *)

\* the word tokens of s: its maximal runs of letters, digits and underscores
RECURSIVE Tokens(_)
Tokens(s) ==
    IF Len(s) = 0 THEN {}
    ELSE IF ~IsWordChar(s[1]) THEN Tokens(Tail(s))
    ELSE LET Run(n) == {SubSeq(s, 1, n)} \cup Tokens(SubSeq(s, n + 1, Len(s)))
         IN Run(CHOOSE n \in 1..Len(s) :
                    /\ \A k \in 1..n : IsWordChar(s[k])
                    /\ n = Len(s) \/ ~IsWordChar(s[n + 1]))

\* the similarity of reference, of two case-folded strings, as a fraction
ReferenceSimilarity(a, b) ==
    IF a = b THEN <<1, 1>>
    ELSE IF IsSubstr(a, b) \/ IsSubstr(b, a) THEN <<9, 10>>
    ELSE IF Tokens(a) = {} \/ Tokens(b) = {} THEN <<0, 1>>
    ELSE <<Cardinality(Tokens(a) \cap Tokens(b)), Cardinality(Tokens(a) \cup Tokens(b))>>

FracEq(x, y) == x[1] * y[2] = y[1] * x[2]

\* C22: the similarity is symmetric, lies within 0 and 1, and is the one of reference: 1
\* for strings equal up to case, else 0.9 when one contains the other, else the Jaccard
\* index of the word tokens, 0 when a side has none; RAM and RAM Memory reach 0.7, RAM
\* and Storage do not.
C22_SimilarityIsReference ==
    op = "_calculate_similarity"
    => /\ FracEq(output, _calculate_similarity(input.str2, input.str1))
       /\ output[2] > 0 /\ 0 <= output[1] /\ output[1] <= output[2]
       /\ FracEq(output, ReferenceSimilarity(lower(input.str1), lower(input.str2)))
       /\ (input.str1 = L_RAM /\ input.str2 = L_RAM_Memory) => FracLeq(<<7, 10>>, output)
       /\ (input.str1 = L_RAM /\ input.str2 = <<"S", "t", "o", "r", "a", "g", "e">>)
          => FracLess(output, <<7, 10>>)

\* Screen Size and Display size share one of three tokens: a third
C22_Witness ==
    /\ op = "_calculate_similarity"
    /\ input.str1 = <<"S", "c", "r", "e", "e", "n", " ", "S", "i", "z", "e">>
    /\ input.str2 = <<"D", "i", "s", "p", "l", "a", "y", " ", "s", "i", "z", "e">>
    /\ FracEq(output, <<1, 3>>)

-----------------------------------------------------------------------------
(* match_features applied to lists of products with like labels.           *)

L_Storage == <<"S", "t", "o", "r", "a", "g", "e">>

\* specifications with labels alike and unlike, nested under a category, under a
\* category with a capital, and under other
ClusterSpecs ==
    {<<<<S_other, <<<<L_RAM, StrVal(<<"8", "G", "B">>)>>>>>>>>,
     <<<<S_other, <<<<L_Memory, StrVal(<<"1", "2", "G", "B">>)>>>>>>>>,
     <<<<S_other, <<<<L_RAM_Memory, StrVal(<<"1", "6", "G", "B">>)>>,
                    <<L_Memory, StrVal(<<"1", "2", "G", "B">>)>>,
                    <<L_RAM, StrVal(<<"8", "G", "B">>)>>>>>>>>,
     <<<<S_memory, <<<<L_RAM, StrVal(<<"8", "G", "B">>)>>,
                     <<L_RAM_Memory, StrVal(<<"1", "6", "G", "B">>)>>>>>>>>,
     <<<<S_memory, <<<<L_RAM_Memory, StrVal(<<"1", "6", "G", "B">>)>>>>>>>>,
     <<<<S_memory, <<<<L_Storage, StrVal(<<"1", "T", "B">>)>>>>>>>>,
     <<<<L_Memory, <<<<L_RAM, StrVal(<<"8", "G", "B">>)>>>>>>>>,
     <<<<S_other, <<<<L_Storage, StrVal(<<"1", "T", "B">>)>>>>>>>>,
     <<<<S_other, <<<<L_Weight, StrVal(<<"1", " ", "k", "g">>)>>>>>>>>,
     <<<<S_other, <<<<L_Color, StrVal(<<"r", "e", "d">>)>>>>>>>>,
     <<<<S_other, <<<<S_battery \o SEP \o L_RAM, StrVal(<<"8", "G", "B">>)>>>>>>>>}

ClusterProducts == {Product(TRUE, n, TRUE, sp) : n \in Names, sp \in ClusterSpecs}

InitClusters ==
    /\ config = ConfigInit
    /\ fs = NoFiles
    /\ calls = <<>>
    /\ op = "input"
    /\ input \in {[products_data |-> [t |-> "list", items |-> items], matched_features |-> <<>>,
                     sections |-> None, feature_key |-> <<>>] :
                        items \in UNION {[1..n -> ClusterProducts] : n \in 0..MaxProducts}}
    /\ output = None

NextClusters == MatchFeatures

SpecClusters == InitClusters /\ [][NextClusters]_vars

-----------------------------------------------------------------------------
(* Properties of the clusters of labels, under SpecClusters.               *)

\* the features of the drawn products by category, as match_features organizes them
Categorized == CategorizedFeatures(FeatureMatcher, AllFeatures(Items))

\* the clusters match_features makes of the labels of the c-th category
ClustersIn(c) == MatchClusters(FeatureMatcher, Categorized[c][2])

\* the contribution lists of the result in the c-th category
MatchedIn(c) == DictGet(output.value, Categorized[c][1])

Similarity07(a, b) == FracLeq(<<7, 10>>, _calculate_similarity(a, b))

\* C23: when match_features returns, every flattened label of a category is in exactly
\* one cluster, the canonical labels of the clusters are pairwise distinct and are the
\* labels of the result, and every product with a value under a label of a cluster is in
\* the contribution list of the canonical label of the cluster.
C23_NoContributionLost ==
    (op = "match_features" /\ ~output.raised)
    => LET NoneLost(features, clusters, matched) ==
               /\ \A l \in Range(DictKeys(features)) :
                      Cardinality({i \in 1..Len(clusters) : l \in Range(clusters[i])}) = 1
               /\ \A i \in 1..Len(clusters) :
                      /\ Range(clusters[i]) \subseteq Range(DictKeys(features))
                      /\ Cardinality(Range(clusters[i])) = Len(clusters[i])
               /\ \A i, j \in 1..Len(clusters) :
                      i # j => CanonicalKey(features, clusters[i]) # CanonicalKey(features, clusters[j])
               /\ DictKeys(matched)
                      = [i \in 1..Len(clusters) |-> CanonicalKey(features, clusters[i])]
               /\ \A i \in 1..Len(clusters) : \A k \in 1..Len(clusters[i]) :
                      ProductsOf(DictGet(features, clusters[i][k]))
                          \subseteq ProductsOf(DictGet(matched, CanonicalKey(features, clusters[i])))
           InEach(categorized) ==
               \A c \in 1..Len(categorized) :
                   NoneLost(categorized[c][2], MatchClusters(FeatureMatcher, categorized[c][2]),
                            DictGet(output.value, categorized[c][1]))
       IN InEach(Categorized)

\* A has RAM, B has RAM Memory, Memory and RAM: the clusters are RAM with RAM Memory, and
\* Memory alone, and both products are under RAM
C23_Witness ==
    /\ op = "match_features"
    /\ ~output.raised
    /\ Len(Items) = 2
    /\ NameOf(1) = <<"A">> /\ NameOf(2) = <<"B">>
    /\ HasOnly(1, S_other, L_RAM)
    /\ Len(Categorized) = 1
    /\ ClustersIn(1) = <<<<L_RAM, L_RAM_Memory>>, <<L_Memory>>>>
    /\ DictKeys(MatchedIn(1)) = <<L_RAM, L_Memory>>
    /\ ProductsOf(DictGet(MatchedIn(1), L_RAM)) = {<<"A">>, <<"B">>}

\* C24: the clusters of a category are those of one greedy pass over its labels in
\* first-seen order: the first label not yet in a cluster is a seed, the later labels not
\* yet in a cluster whose similarity with the seed is at least 0.7 join it, and the
\* similarity with a member other than the seed brings no label in.
C24_GreedySeedClusters ==
    (op = "match_features" /\ ~output.raised)
    => LET Greedy(labels, clusters) ==
               /\ clusters = ClustersOf(labels)
               /\ \A i \in 1..Len(clusters) : \A l \in Range(clusters[i]) :
                      /\ l = clusters[i][1] \/ Similarity07(clusters[i][1], l)
                      /\ \A j \in 1..(i - 1) : ~Similarity07(clusters[j][1], l)
           InEach(categorized) ==
               \A c \in 1..Len(categorized) :
                   Greedy(DictKeys(categorized[c][2]),
                          MatchClusters(FeatureMatcher, categorized[c][2]))
       IN InEach(Categorized)

\* B has RAM Memory, Memory and RAM, in this order: Memory and RAM, of similarity 0, are
\* both in the cluster of the seed RAM Memory
C24_Witness ==
    /\ op = "match_features"
    /\ ~output.raised
    /\ Len(Items) = 1
    /\ Len(Categorized) = 1
    /\ ClustersIn(1) = <<<<L_RAM_Memory, L_Memory, L_RAM>>>>
    /\ ~Similarity07(L_Memory, L_RAM)
    /\ Len(MatchedIn(1)) = 1

\* RAM is the seed and Memory, met later, is like RAM Memory of RAM's cluster only:
\* Memory is the next seed
C24_WitnessNonSeed ==
    /\ C23_Witness
    /\ Similarity07(L_Memory, L_RAM_Memory)

\* C25: the canonical label of a cluster, the label of its list in the result, is a
\* member with the largest number of contributions, and the first such member of the
\* cluster, whose order is the seed and then the others as first seen in the category.
C25_CanonicalMostContributionsFirstSeen ==
    (op = "match_features" /\ ~output.raised)
    => LET Count(features, l) == Len(DictGet(features, l))
           Position(features, l) == DictIdx(features, l)
           Canonical(features, cluster, k) ==
               /\ k \in Range(cluster)
               /\ \A l \in Range(cluster) :
                      \/ Count(features, l) < Count(features, k)
                      \/ /\ Count(features, l) = Count(features, k)
                         /\ Position(features, k) <= Position(features, l)
           OneCanonical(features, cluster, keys) ==
               \E k \in Range(cluster) : keys = {k} /\ Canonical(features, cluster, k)
           SeedFirst(features, cluster) ==
               \A k \in 2..Len(cluster) :
                   Position(features, cluster[1]) < Position(features, cluster[k])
           Each(features, clusters, labels) ==
               \A i \in 1..Len(clusters) :
                   /\ SeedFirst(features, clusters[i])
                   /\ OneCanonical(features, clusters[i], labels \cap Range(clusters[i]))
           InEach(categorized) ==
               \A c \in 1..Len(categorized) :
                   Each(categorized[c][2], MatchClusters(FeatureMatcher, categorized[c][2]),
                        Range(DictKeys(DictGet(output.value, categorized[c][1]))))
       IN InEach(Categorized)

\* A has RAM and RAM Memory, one contribution each: the seed RAM, seen first, is the label
C25_Witness ==
    /\ op = "match_features"
    /\ ~output.raised
    /\ Len(Items) = 1
    /\ Items[1].specifications
           = <<<<S_other, <<<<L_RAM_Memory, StrVal(<<"1", "6", "G", "B">>)>>,
                            <<L_Memory, StrVal(<<"1", "2", "G", "B">>)>>,
                            <<L_RAM, StrVal(<<"8", "G", "B">>)>>>>>>>>
    /\ DictKeys(MatchedIn(1)) = <<L_RAM_Memory>>

\* B's RAM Memory, with two contributions, is the label although RAM is the seed
C25_WitnessMost ==
    /\ op = "match_features"
    /\ ~output.raised
    /\ Len(Items) = 2
    /\ HasOnly(2, S_memory, L_RAM_Memory)
    /\ Len(Categorized) = 1
    /\ ClustersIn(1) = <<<<S_memory \o SEP \o L_RAM, S_memory \o SEP \o L_RAM_Memory>>>>
    /\ DictKeys(MatchedIn(1)) = <<S_memory \o SEP \o L_RAM_Memory>>

-----------------------------------------------------------------------------
(* Properties of the flattened labels, under SpecClusters.                 *)

\* the category the keywords give a key: the first category with a matching keyword
KeywordCategory(key) ==
    FirstMatchingCategory(FeatureMatcher.feature_categories, 1, lower(key))

\* the text of a key before its first " - ", in lower case
BeforeSeparator(key) == lower(SubSeq(key, 1, Find(SEP, key) - 1))

\* every specification of a record whose name no later record has is, in the result, in
\* one category only: lowercase(c) under the label "c - key" when it is under a category
\* c other than other, and OtherCategory(key) under the label key when it is under other;
\* the list it is in is the one of the cluster of its label
FlattenedPlaced(OtherCategory(_)) ==
    LET Placed(categorized, name, label, category) ==
            /\ \A c \in 1..Len(categorized) :
                   label \in Range(DictKeys(categorized[c][2])) <=> categorized[c][1] = category
            /\ DictHas(output.value, category)
            /\ \E f \in 1..Len(DictGet(output.value, category)) :
                   /\ name \in ProductsOf(DictGet(output.value, category)[f][2])
                   /\ \E cluster \in Range(ClustersOf(DictKeys(DictGet(categorized, category)))) :
                          {label, DictGet(output.value, category)[f][1]} \subseteq Range(cluster)
        Each(categorized, name, c, key) ==
            IF c # S_other THEN Placed(categorized, name, c \o SEP \o key, lower(c))
            ELSE Placed(categorized, name, key, OtherCategory(key))
        All(categorized) ==
            \A i \in 1..Len(Items) :
                (\A j \in (i + 1)..Len(Items) : NameOf(j) # NameOf(i))
                => \A s \in 1..Len(Items[i].specifications) :
                       \A k \in 1..Len(Items[i].specifications[s][2]) :
                           Each(categorized, NameOf(i), Items[i].specifications[s][1],
                                Items[i].specifications[s][2][k][1])
    IN (op = "match_features" /\ ~output.raised) => All(Categorized)

-----------------------------------------------------------------------------
(* The operations of an engine on the records of a caller: what a call     *)
(* leaves of the attributes of the engine and of the records.              *)

\* the records after a call that fills in the missing names
RecordsAfter_setdefault(products_data, operation) ==
    IF products_data.t = "list" /\ operation = "match_features"
    THEN [t |-> "list",
          items |-> [i \in 1..Len(products_data.items) |->
                        Product(TRUE, ProductName(products_data.items[i], i),
                                products_data.items[i].has_specs,
                                products_data.items[i].specifications)]]
    ELSE products_data
\* the records of the caller after a call: the operations read them with get, items and
\* enumerate, and store to dictionaries and lists of their own only
RecordsAfter(products_data, operation) == products_data

\* the attributes of an engine after a call: outside __init__ no statement assigns to an
\* attribute of self or stores to a table an attribute holds
AttributesAfter(self, operation) == self

FrameLists ==
    CallLists
    \cup {[t |-> "list", items |->
             <<Product(FALSE, <<>>, TRUE, <<<<S_other, <<<<L_RAM, StrVal(<<"8", "G", "B">>)>>>>>>>>),
               Product(TRUE, <<"B">>, FALSE, <<>>)>>]}

FrameTexts == {StrVal(<<"8", "G", "B">>), StrVal(<<"1", " ", "k", "g">>), StrVal(<<"n", "o", "n", "e">>)}

FrameCategories == {S_memory, S_weight}

InitFrame ==
    /\ config = ConfigInit
    /\ fs = NoFiles
    /\ calls = <<>>
    /\ op = "idle"
    /\ input \in {[engine |-> 1, passed |-> pd, products_data |-> pd, value_str |-> v,
                     value2 |-> StrVal(<<"1", "2", "G", "B">>), category |-> c] :
                        pd \in FrameLists, v \in FrameTexts, c \in FrameCategories}
    /\ output = None

\* engine e has run operation on the records, with the outcome
Called(e, operation, outcome) ==
    /\ op' = operation
    /\ output' = outcome
    /\ config' = [config EXCEPT ![e] = AttributesAfter(@, operation)]
    /\ input' = [input EXCEPT !.engine = e,
                               !.products_data = RecordsAfter(@, operation)]
    /\ UNCHANGED <<fs, calls>>

MatchFeaturesOf(e) ==
    Called(e, "match_features", match_features(config[e].feature_matcher, input.products_data))

NormalizeForComparisonOf(e) ==
    Called(e, "normalize_for_comparison",
           normalize_for_comparison(config[e].unit_converter, input.value_str, input.category))

CompareValuesOf(e) ==
    Called(e, "compare_values",
           compare_values(config[e].unit_converter, input.value_str, input.value2, input.category))

\* generate_feature_matrix on what match_features returns for the records
GenerateFeatureMatrixAfterMatch(e) ==
    /\ ~match_features(config[e].feature_matcher, input.products_data).raised
    /\ Called(e, "generate_feature_matrix",
              Return(generate_feature_matrix(
                         config[e].matrix_generator,
                         match_features(config[e].feature_matcher, input.products_data).value)))

\* generate_template on the names and the matrix of the records
GenerateTemplateAfterMatch(e) ==
    /\ ~match_features(config[e].feature_matcher, input.products_data).raised
    /\ ~product_names(input.products_data).raised
    /\ Called(e, "generate_template",
              generate_template(
                  config[e].template_generator, product_names(input.products_data).value,
                  generate_feature_matrix(
                      config[e].matrix_generator,
                      match_features(config[e].feature_matcher, input.products_data).value),
                  <<"2024-01-01">>, None))

CompareProductsOf(e) ==
    Called(e, "compare_products",
           compare_products(config[e], input.products_data, <<"2024-01-01">>))

NextFrame ==
    \E e \in Engines :
        \/ MatchFeaturesOf(e)
        \/ NormalizeForComparisonOf(e)
        \/ CompareValuesOf(e)
        \/ GenerateFeatureMatrixAfterMatch(e)
        \/ GenerateTemplateAfterMatch(e)
        \/ CompareProductsOf(e)

SpecFrame == InitFrame /\ [][NextFrame]_vars

C27_WitnessReturned ==
    /\ op = "match_features"
    /\ ~output.raised
    /\ input.products_data.t = "list"
    /\ Len(input.products_data.items) = 2
    /\ ~input.products_data.items[1].has_name

-----------------------------------------------------------------------------
(* The comparison matrix section of the products of drawn lists.           *)

TableSpecs ==
    {<<>>,
     <<<<S_memory, <<<<L_RAM, StrVal(<<"8", "G", "B">>)>>>>>>>>,
     <<<<S_memory, <<<<L_RAM, IntVal(8)>>>>>>>>,
     <<<<S_other, <<<<L_Color, StrVal(<<"r", "e", "d">>)>>>>>>>>,
     <<<<S_other, <<<<L_Weight, StrVal(<<"1", " ", "k", "g">>)>>>>>>>>}

\* products with specifications, with none, and one without the specifications key
TableProducts ==
    {Product(TRUE, n, TRUE, sp) : n \in Names, sp \in TableSpecs}
    \cup {Product(TRUE, <<"A">>, FALSE, <<>>)}

InitTable ==
    /\ config = ConfigInit
    /\ fs = NoFiles
    /\ calls = <<>>
    /\ op = "input"
    /\ input \in {[products_data |-> [t |-> "list", items |-> items], feature_matrix |-> <<>>] :
                        items \in UNION {[1..n -> TableProducts] : n \in 0..MaxProducts}}
    /\ output = None

\* the matrix compare_products makes of the list: match_features, generate_feature_matrix
MatrixOfList ==
    /\ op = "input"
    /\ op' = "generate_feature_matrix"
    /\ input' = [input EXCEPT !.feature_matrix =
                     generate_feature_matrix(
                         config[1].matrix_generator,
                         match_features(config[1].feature_matcher, input.products_data).value)]
    /\ output' = None
    /\ UNCHANGED <<config, fs, calls>>

\* _generate_comparison_matrix on the matrix and the names of the products
GenerateComparisonMatrix ==
    /\ op = "generate_feature_matrix"
    /\ op' = "_generate_comparison_matrix"
    /\ output' = _generate_comparison_matrix(input.feature_matrix,
                                             product_names(input.products_data).value)
    /\ UNCHANGED <<config, fs, calls, input>>

NextTable == MatrixOfList \/ GenerateComparisonMatrix

SpecTable == InitTable /\ [][NextTable]_vars

\* the section with the given body
ComparisonMatrixSection(body) ==
    Lines(<<<<"## Comparison Matrix">>, <<>>,
            <<"The following tables compare key features across all products:">>, <<>>, body>>)

\* the categories of the matrix with at least one feature
CategoriesWithFeatures == SelectSeq(input.feature_matrix, LAMBDA cf : Len(cf[2]) > 0)

\* C28: the comparison matrix section is never raised; it has one table under a heading
\* for each category with at least one feature and none for the others, and when no
\* category has a feature its body is the text No comparison data available.
C28_NoDataTextWhenNoFeature ==
    op = "_generate_comparison_matrix"
    => /\ ~output.raised
       /\ LET Headings(section) == SelectSeq(section, LAMBDA a : a = "### ")
              Rendered(section, categories) ==
                  IF Len(categories) = 0
                  THEN section = ComparisonMatrixSection(<<"No comparison data available.">>)
                  ELSE Len(Headings(section)) = Len(categories)
          IN Rendered(output.value, CategoriesWithFeatures)

\* the section of one product without specifications: every category of the matrix is
\* empty and the body is the empty text
C28_EmptyBody ==
    /\ op = "_generate_comparison_matrix"
    /\ Len(Items) = 1
    /\ Len(input.feature_matrix) = 12
    /\ Len(CategoriesWithFeatures) = 0
    /\ ~output.raised
    /\ output.value = ComparisonMatrixSection(<<>>)

\* the section of a product whose RAM is the integer 8 is raised
C28_Raised ==
    /\ op = "_generate_comparison_matrix"
    /\ Len(Items) = 1
    /\ output.raised

-----------------------------------------------------------------------------
(* compare_products on lists of products of the categories with base       *)
(* units, with names that may repeat.                                      *)

L_Capacity == <<"C", "a", "p", "a", "c", "i", "t", "y">>

ReportSpecs ==
    {<<<<S_memory, <<<<L_RAM, StrVal(<<"8", "G", "B">>)>>>>>>>>,
     <<<<S_memory, <<<<L_RAM, StrVal(<<"1", "2", "G", "B">>)>>>>>>>>,
     <<<<S_weight, <<<<L_Weight, StrVal(<<"1", " ", "k", "g">>)>>>>>>>>,
     <<<<S_resolution, <<<<L_Resolution, StrVal(<<"1", "9", "2", "0", "x", "1", "0", "8", "0">>)>>>>>>>>,
     <<<<S_other, <<<<L_Weight, StrVal(<<"1", " ", "k", "g">>)>>>>>>>>,
     <<<<S_other, <<<<L_Weight, StrVal(<<"2", " ", "k", "g">>)>>>>>>>>,
     <<<<S_battery, <<<<L_Refresh_Rate, StrVal(<<"1", "2", "0", "H", "z">>)>>>>>>>>,
     <<<<S_battery, <<<<L_Refresh_Rate, StrVal(<<"6", "0", "H", "z">>)>>>>>>>>,
     <<<<S_battery, <<<<L_Capacity, StrVal(<<"4", "0", "0", "0", "m", "A", "h">>)>>>>>>>>,
     <<<<S_battery, <<<<L_Capacity, StrVal(<<"5", "0", "0", "0", "m", "A", "h">>)>>>>>>>>,
     <<<<S_display, <<<<L_Resolution, StrVal(<<"1", "9", "2", "0", "x", "1", "0", "8", "0">>)>>>>>>>>,
     <<<<S_display, <<<<L_Resolution, StrVal(<<"2", "5", "6", "0", "x", "1", "4", "4", "0">>)>>>>>>>>}

ReportProducts == {Product(TRUE, n, TRUE, sp) : n \in Names, sp \in ReportSpecs}

InitReport ==
    /\ config = ConfigInit
    /\ fs = NoFiles
    /\ calls = <<>>
    /\ op = "input"
    /\ input \in {[products_data |-> [t |-> "list", items |-> items]] :
                        items \in UNION {[1..n -> ReportProducts] : n \in 0..MaxProducts}}
    /\ output = None

CompareProductsOfList ==
    /\ op = "input"
    /\ op' = "compare_products"
    /\ output' = compare_products(config[1], input.products_data, <<"2024-01-01">>)
    /\ UNCHANGED <<config, fs, calls, input>>

NextReport == CompareProductsOfList

SpecReport == InitReport /\ [][NextReport]_vars

\* the feature matrix compare_products makes of the drawn list
MatrixOfReport ==
    generate_feature_matrix(ComparisonEngine.matrix_generator,
                            match_features(ComparisonEngine.feature_matcher,
                                           input.products_data).value)

\* the annotations of a matrix, each with its category and label
AnnotationsOf(matrix) ==
    UNION {{[category |-> matrix[c][1], label |-> matrix[c][2][f][1],
             comparison |-> DictGet(matrix[c][2][f][2], S_comparison)] :
                f \in {g \in 1..Len(matrix[c][2]) : DictHas(matrix[c][2][g][2], S_comparison)}} :
           c \in 1..Len(matrix)}

\* C29: when compare_products returns a report, every annotation of its matrix is on a
\* feature of processor, memory, storage, display or battery and is higher-is-better, no
\* feature is in weight, resolution or refresh_rate, and no line of the report says lowest.
C29_AnnotationsHigherIsBetterOnly ==
    (op = "compare_products" /\ ~output.raised)
    => LET OnlyHigher(matrix) ==
               /\ \A a \in AnnotationsOf(matrix) :
                      /\ a.category \in {S_processor, S_memory, S_storage, S_display, S_battery}
                      /\ a.comparison.type = "higher_better"
               /\ \A c \in 1..Len(matrix) :
                      matrix[c][1] \notin {S_weight, S_resolution, S_refresh_rate}
       IN /\ OnlyHigher(MatrixOfReport)
          /\ \A i \in 1..Len(output.value) : output.value[i] # "** has the lowest "

\* a report of two products with Refresh Rate under battery: the annotation, by the label,
\* is higher-is-better and the report says highest
C29_Witness ==
    /\ op = "compare_products"
    /\ ~output.raised
    /\ Len(Items) = 2
    /\ \E a \in AnnotationsOf(MatrixOfReport) :
           /\ a.category = S_battery
           /\ a.comparison.type = "higher_better"
           /\ a.comparison.best_product = <<"A">>
    /\ \E i \in 1..Len(output.value) : output.value[i] = "** has the highest "

\* two products with Weight under other: the feature is in dimensions, without annotation
C29_WitnessDimensions ==
    /\ op = "compare_products"
    /\ ~output.raised
    /\ Len(Items) = 2
    /\ HasOnly(1, S_other, L_Weight) /\ HasOnly(2, S_other, L_Weight)
    /\ NameOf(1) # NameOf(2)
    /\ Len(DictGet(MatrixOfReport, S_dimensions)) = 1
    /\ AnnotationsOf(MatrixOfReport) = {}

-----------------------------------------------------------------------------
(* Properties of the reports of lists with a repeated name, under          *)
(* SpecReport.                                                             *)

\* record i is the last of the list with its name
LastOfName(i) == \A j \in (i + 1)..Len(Items) : NameOf(j) # NameOf(i)

\* the values of the specifications of record i
ValuesOf(i) ==
    UNION {{Items[i].specifications[s][2][k][2] : k \in 1..Len(Items[i].specifications[s][2])} :
           s \in 1..Len(Items[i].specifications)}

\* the <<product, value>> pairs of the matched features
PairsOf(matched) ==
    UNION {UNION {Range(matched[c][2][f][2]) : f \in 1..Len(matched[c][2])} :
           c \in 1..Len(matched)}

\* the line of the table for a feature: the label, then for each record, in the order of
\* the list, the cell of its name: the value the row has for the name, in bold when the
\* name is the best product, N/A when the row has none
RowLine(label, row) ==
    LET Cell(name) ==
            IF ~DictHas(row, name) THEN S_NA
            ELSE IF DictHas(row, S_comparison) /\ DictGet(row, S_comparison).best_product = name
            THEN <<"**">> \o DictGet(row, name).s \o <<"**">>
            ELSE DictGet(row, name).s
    IN <<"| ">> \o Join(<<" | ">>, <<label>> \o [i \in 1..Len(Items) |-> Cell(NameOf(i))])
       \o <<" |">>

\* C30: in a report compare_products returns, the values the matched features hold for a
\* name are those of the last record of that name, and no value of an earlier record of
\* the name; the title and the head of every table have the name once for each record,
\* and every row has in the column of a record the cell of its name, the same in the
\* columns of the records of one name.
C30_LaterRecordOfNameOnly ==
    (op = "compare_products" /\ ~output.raised)
    => LET names == [i \in 1..Len(Items) |-> NameOf(i)]
           Later(pairs) ==
               pairs = UNION {{<<NameOf(i), v>> : v \in ValuesOf(i)} :
                              i \in {j \in 1..Len(Items) : LastOfName(j)}}
           Listed(matrix, report) ==
               /\ IsSubstr(<<"# Product Comparison: ">> \o Join(<<", ">>, names) \o <<"\n">>,
                           report)
               /\ \A c \in 1..Len(matrix) : \A f \in 1..Len(matrix[c][2]) :
                      /\ IsSubstr(<<"\n", "| ">> \o Join(<<" | ">>, <<<<"Feature">>>> \o names)
                                      \o <<" |", "\n">>, report)
                      /\ IsSubstr(<<"\n">> \o RowLine(matrix[c][2][f][1], matrix[c][2][f][2])
                                      \o <<"\n">>, report)
       IN /\ Later(PairsOf(match_features(ComparisonEngine.feature_matcher,
                                          input.products_data).value))
          /\ Listed(MatrixOfReport, output.value)

\* two records named A, with RAM 8GB and then 12GB: the matched features hold 12GB for A,
\* the row shows 12GB in both columns and 8GB is nowhere in the report
C30_Witness ==
    /\ op = "compare_products"
    /\ ~output.raised
    /\ Len(Items) = 2
    /\ NameOf(1) = <<"A">> /\ NameOf(2) = <<"A">>
    /\ Items[1].specifications = <<<<S_memory, <<<<L_RAM, StrVal(<<"8", "G", "B">>)>>>>>>>>
    /\ Items[2].specifications = <<<<S_memory, <<<<L_RAM, StrVal(<<"1", "2", "G", "B">>)>>>>>>>>
    /\ IsSubstr(<<"# Product Comparison: ", "A", ", ", "A", "\n">>, output.value)
    /\ IsSubstr(<<"| ">> \o S_memory \o SEP \o L_RAM
                    \o <<" | ", "1", "2", "G", "B", " | ", "1", "2", "G", "B", " |">>,
                output.value)
    /\ ~IsSubstr(<<"8", "G", "B">>, output.value)

=============================================================================
